---- MODULE Spec2Model ----
(***************************************************************************)
(* Daemon orchestrator of context_core.watcher: the daemon record kept in  *)
(* the state database (watcher/state.py), the liveness probe and the       *)
(* start / stop / status entry points and WatcherDaemon.run                *)
(* (watcher/daemon.py).                                                    *)
(*                                                                         *)
(* Every operating-system process is one entry of `proc`.  A process is    *)
(* launched with one command (a call of start_daemon, stop_daemon,         *)
(* daemon_status or _is_process_running), executes the statements of that  *)
(* call one shared access at a time and exits.  A process enters the model *)
(* with the first shared access of its call: nothing can tell a process    *)
(* that has not yet read the database from one that does not yet exist.    *)
(* Process ids are handed out in increasing order and are not reused       *)
(* within the horizon MaxPid.                                              *)
(***************************************************************************)
EXTENDS Integers, Sequences, FiniteSets, TLC

\* ---- bounds of the model ------------------------------------------------
MaxPid == 2
MaxTimeout == 1

\* width in bits of the C int that os.kill converts its pid argument to
\* (32 on the platform; narrowed here, the model's integers being 32 bits wide)
PidBits == 8

\* the longest history line drawn, in pieces of LinePieces
MaxPieces == 3
\* the number of units of work (scans, events, polls) of one behaviour
MaxUnits == 3
\* the last instant of the monotonic clock
MaxClock == 11
\* the contents a file takes are 0 (empty) and 1..MaxContent
MaxContent == 1
\* the longest history file, in lines
MaxLines == 3
\* VaultConfig.history_batch_size (20 by default), small enough here for a
\* poll to fill a batch before its last line
history_batch_size == 2
\* the most mutating State Store calls in a behaviour
MaxOps == 2
\* the most whitespace characters before, and after, the body of a clipboard text
MaxPad == 2

\* ---- program and platform constants -------------------------------------
\* largest value os.kill accepts for its pid argument
PidTMax == 2 ^ (PidBits - 1) - 1
\* SQL NULL / Python None of the pid column; Python tests "if pid" and
\* "pid is None", which agree on every pid the program stores (pids are > 0)
NULL == 0

PIDs == 1..MaxPid
Users == {"u1", "u2"}
Timeouts == {0, MaxTimeout}
BigPid == PidTMax + 1
ProbePids == PIDs \cup {BigPid}
Collectors == {"fw", "cb", "hi"}

VARIABLES
    rec,      \* the daemon_state row (id = 1) of the state database
    dirs,     \* the watched_directories table: its rows, in insertion order
    nextPid,  \* the next process id the operating system hands out
    proc,     \* the live processes: command, position, locals, daemon object
    last      \* the call that ended last: its process as it was when it ended

\* the collectors (watcher/file_watcher.py, clipboard_monitor.py,
\* history_ingestor.py), their tables of the state database, their sources
\* and the content store
VARIABLES
    mode,             \* which part of the program this behaviour exercises
    clock,            \* time.monotonic(), in seconds
    fs,               \* the files under the watched directories: path -> content
    file_state,       \* table file_state: path -> content hash
    debounce,         \* VaultFileHandler._debounce of the live handler
    clipboard,        \* what pbpaste prints
    clipboard_state,  \* table clipboard_state: last_hash
    history,          \* the lines of the shell history file
    history_state,    \* table history_state: last_line_num
    vault,            \* the documents of the content store
    unit,             \* the unit of work in flight on the collector's thread
    done              \* how the unit of work before ended, and how many ended

dvars == <<rec, dirs, nextPid, proc, last>>
cvars == <<mode, clock, fs, file_state, debounce, clipboard, clipboard_state,
           history, history_state, vault, unit, done>>
vars == <<rec, dirs, nextPid, proc, last, mode, clock, fs, file_state, debounce,
          clipboard, clipboard_state, history, history_state, vault, unit, done>>

\* ---- config.py: the collectors' settings --------------------------------
debounce_seconds == 5
history_min_command_length == 5

\* text is a sequence of one-character strings
history_skip_commands ==
    { <<"l", "s">>, <<"c", "d">>, <<"p", "w", "d">>, <<"c", "l", "e", "a", "r">>,
      <<"e", "x", "i", "t">>, <<"w", "h", "i", "c", "h">>, <<"e", "c", "h", "o">>,
      <<"c", "a", "t">>, <<"l", "e", "s", "s">>, <<"m", "o", "r", "e">>,
      <<"h", "e", "a", "d">>, <<"t", "a", "i", "l">>, <<"m", "a", "n">> }

clipboard_min_length == 10
clipboard_max_length == 50000

\* ---- text, as Python's str methods treat it ------------------------------
Whitespace == {" ", "\n"}

RECURSIVE lstrip(_)
lstrip(t) == IF t # <<>> /\ Head(t) \in Whitespace THEN lstrip(Tail(t)) ELSE t

RECURSIVE rstrip(_)
rstrip(t) ==
    IF t # <<>> /\ t[Len(t)] \in Whitespace THEN rstrip(SubSeq(t, 1, Len(t) - 1)) ELSE t

strip(t) == rstrip(lstrip(t))

startswith(t, pre) == Len(t) >= Len(pre) /\ SubSeq(t, 1, Len(pre)) = pre

contains(t, c) == \E i \in 1..Len(t) : t[i] = c

\* the index of the first c in t (t contains c)
find(t, c) == CHOOSE i \in 1..Len(t) : t[i] = c /\ \A j \in 1..(i - 1) : t[j] # c

\* t.partition(c)[2]: what follows the first c
after_partition(t, c) ==
    IF contains(t, c) THEN SubSeq(t, find(t, c) + 1, Len(t)) ELSE <<>>

\* t.split()[0] for a t that does not start with whitespace
first_token(t) ==
    IF \E i \in 1..Len(t) : t[i] \in Whitespace
    THEN SubSeq(t, 1, (CHOOSE i \in 1..Len(t) :
                          t[i] \in Whitespace /\ \A j \in 1..(i - 1) : t[j] \notin Whitespace) - 1)
    ELSE t

\* t.split("/")[-1]: what follows the last slash
last_segment(t) ==
    IF contains(t, "/")
    THEN SubSeq(t, (CHOOSE i \in 1..Len(t) :
                       t[i] = "/" /\ \A j \in (i + 1)..Len(t) : t[j] # "/") + 1, Len(t))
    ELSE t

\* ---- security.py: SecretDetector ----------------------------------------------
UpperCase == <<"A", "B", "C", "D", "E", "F", "G", "H", "I", "J", "K", "L", "M",
               "N", "O", "P", "Q", "R", "S", "T", "U", "V", "W", "X", "Y", "Z">>
LowerCase == <<"a", "b", "c", "d", "e", "f", "g", "h", "i", "j", "k", "l", "m",
               "n", "o", "p", "q", "r", "s", "t", "u", "v", "w", "x", "y", "z">>

\* (?i): a character without its case
lower(c) ==
    IF \E k \in 1..26 : UpperCase[k] = c
    THEN LowerCase[CHOOSE k \in 1..26 : UpperCase[k] = c]
    ELSE c

\* ["\s:=] and [a-zA-Z0-9_\-] of the api_key pattern
KeySeparators == {"\"", " ", "\n", ":", "="}
KeyCharacters ==
    {UpperCase[k] : k \in 1..26} \cup {LowerCase[k] : k \in 1..26}
        \cup {"0", "1", "2", "3", "4", "5", "6", "7", "8", "9", "_", "-"}
api_key_min_length == 20

\* the names the api_key pattern starts with (x-api-key ends with one of them)
KeyNames ==
    { <<"a", "p", "i", "k", "e", "y">>,
      <<"a", "p", "i", "_", "k", "e", "y">>,
      <<"a", "p", "i", "-", "k", "e", "y">> }

\* the text has the characters of w, whatever their case, from position p on
matches_at(t, p, w) ==
    /\ p + Len(w) - 1 <= Len(t)
    /\ \A k \in 1..Len(w) : lower(t[p + k - 1]) = w[k]

\* the number of characters of the set cs the text has in a row from position p
RECURSIVE run_length(_, _, _)
run_length(t, p, cs) ==
    IF p > Len(t) \/ t[p] \notin cs THEN 0 ELSE 1 + run_length(t, p + 1, cs)

\* PATTERNS[0], api_key: a name, separators, and 20 characters of a key or more
api_key_search(t) ==
    \E p \in 1..Len(t), w \in KeyNames :
        /\ matches_at(t, p, w)
        /\ LET q == p + Len(w)
               seps == run_length(t, q, KeySeparators)
           IN /\ seps >= 1
              /\ run_length(t, q + seps, KeyCharacters) >= api_key_min_length

\* SecretDetector.contains_secret, with the pattern the texts of this model
\* can match
contains_secret(t) ==
    IF t = <<>> \/ strip(t) = <<>> THEN FALSE ELSE api_key_search(t)

\* ---- HistoryIngestor.parse_history_line ------------------------------------
Shells == {"zsh", "bash"}
NoCommand == [some |-> FALSE, text |-> <<>>]
Command(t) == [some |-> TRUE, text |-> t]

\* lines 73-75: the line after the extended-format prefix is taken off
strip_extended(shell_name, line) ==
    IF shell_name = "zsh" /\ startswith(line, <<":", " ">>) /\ contains(line, ";")
    THEN strip(after_partition(line, ";"))
    ELSE line

\* lines 80-82
base_cmd(line) == last_segment(first_token(line))

\* lines 69-84: None, or the command to ingest
parse_history_line(shell_name, raw) ==
    LET line == strip(raw) IN
    IF line = <<>> THEN NoCommand
    ELSE LET cmd == strip_extended(shell_name, line) IN
         IF cmd = <<>> \/ Len(cmd) < history_min_command_length THEN NoCommand
         ELSE IF base_cmd(cmd) \in history_skip_commands THEN NoCommand
         ELSE Command(cmd)

\* ---- the collectors' sources and tables, before anything ran ----------------
\* the files under the watched directories; a file's content is a number,
\* 0 for an empty file
Files == {"a.py", "b.py", ".h.py"}
Contents == 0..MaxContent

\* hashlib.sha256 of a text (utils.content_hash, Document.generate_id): told
\* apart from the text, and different for different texts
sha256(c) == <<"sha256", c>>
NoHash == <<"none">>

\* no unit of work in flight
Idle == [kind |-> "none"]
\* no unit of work ended yet
NoneDone == [kind |-> "none", pc |-> "none", n |-> 0, raised |-> {}]

\* the state of the collectors in a behaviour of kind m that starts with the
\* tables empty (state.py 23-64), an empty content store, the files f, the
\* clipboard c, the history lines h and the unit of work u.  The monotonic clock has run for at
\* least the debounce window when the program starts
CollectorsStart(m, f, c, h, u) ==
    /\ mode = m
    /\ clock = debounce_seconds
    /\ fs = f
    /\ file_state = [x \in Files |-> NoHash]
    /\ debounce = [x \in Files |-> 0]
    /\ clipboard = c
    /\ clipboard_state = NoHash
    /\ history = h
    /\ history_state = 0
    /\ vault = {}
    /\ unit = u
    /\ done = NoneDone

\* ---- watcher/state.py: the daemon record --------------------------------
NoRow == [exists |-> FALSE, pid |-> NULL, started_at |-> FALSE, status |-> "stopped"]

\* a write of the pid that gives way to a record naming a running daemon
set_daemon_pid_if_free(r, pid) ==
    IF r.exists /\ r.status = "running" THEN r
    ELSE [exists |-> TRUE, pid |-> pid, started_at |-> TRUE, status |-> "running"]

set_daemon_pid(r, pid) ==
    [exists |-> TRUE, pid |-> pid, started_at |-> TRUE, status |-> "running"]

get_daemon_pid(r) ==
    IF r.exists /\ r.status = "running" THEN r.pid ELSE NULL

\* a clear that sets the status and leaves the pid in the record
clear_status_only(r) ==
    IF r.exists THEN [r EXCEPT !.status = "stopped"] ELSE r

clear_daemon_pid(r) ==
    IF r.exists THEN [r EXCEPT !.pid = NULL, !.status = "stopped"] ELSE r

get_daemon_status(r) ==
    IF r.exists
    THEN [pid |-> r.pid, started_at |-> r.started_at, status |-> r.status]
    ELSE [pid |-> NULL, started_at |-> FALSE, status |-> "stopped"]

\* SELECT * FROM watched_directories ORDER BY added_at: the rows of the table
\* d, which holds them in the order of their insertion, by their added_at,
\* rows of one added_at in the order of their insertion
list_directories(d) ==
    LET rank(i) == Cardinality({j \in 1..Len(d) :
                       \/ d[j].added_at < d[i].added_at
                       \/ d[j].added_at = d[i].added_at /\ j < i}) + 1
    IN [k \in 1..Len(d) |-> d[CHOOSE i \in 1..Len(d) : rank(i) = k]]

\* ---- the result of one call ----------------------------------------------
NoInfo == [pid |-> NULL, started_at |-> FALSE, status |-> "none",
           note |-> FALSE, watched_directories |-> 0]
NoRes == [kind |-> "none", pid |-> NULL, ok |-> FALSE, exc |-> "none"]
Returns(pid, ok) == [kind |-> "return", pid |-> pid, ok |-> ok, exc |-> "none"]
Raises(e) == [kind |-> "raise", pid |-> NULL, ok |-> FALSE, exc |-> e]

FreshProc ==
    [st |-> "unborn", self |-> NULL, uid |-> "u1", cmd |-> "none", arg |-> 0, pc |-> "none",
     lpid |-> NULL, info |-> NoInfo, probes |-> 0, log |-> <<>>, res |-> NoRes,
     running |-> FALSE, handlers |-> FALSE,
     coll |-> [c \in Collectors |-> "none"], exc |-> FALSE, runExit |-> "none",
     wpipe |-> "none", ready |-> FALSE, sig |-> {}, child |-> NULL,
     recAfter |-> NoRow]

Live(p) == proc[p].st = "live"
At(p, cmds, pc) == Live(p) /\ proc[p].cmd \in cmds /\ proc[p].pc = pc

\* ---- the liveness probe --------------------------------------------------
\* what os.kill(pid, sig) does when process `me` calls it
KillOutcomeAs(uid, pid) ==
    IF pid > PidTMax THEN "OverflowError"
    ELSE IF pid \notin PIDs \/ proc[pid].st # "live" THEN "ProcessLookupError"
    ELSE IF proc[pid].uid # uid THEN "PermissionError"
    ELSE "ok"

KillOutcome(me, pid) == KillOutcomeAs(proc[me].uid, pid)

\* _is_process_running, from the outcome of os.kill(pid, 0):
\* "True", "False", or the exception that leaves the function
is_process_running(outcome) ==
    CASE outcome = "ok" -> "True"
      [] outcome = "ProcessLookupError" -> "False"
      [] outcome = "PermissionError" -> "True"
      [] OTHER -> outcome

Probe(me, pid) == is_process_running(KillOutcome(me, pid))
ProbeEvent(r) == IF r = "True" THEN "alive" ELSE IF r = "False" THEN "dead" ELSE "probe_raised"

\* ---- process bookkeeping -------------------------------------------------
EntryPc(cmd) ==
    CASE cmd \in {"start_fg", "start_bg"} -> "sd_read"
      [] cmd = "stop" -> "sp_read"
      [] cmd = "status" -> "st_read"
      [] cmd = "probe" -> "probe_call"

\* the call returned or raised: the process prints its outcome and exits
Finish(q, res) == [q EXCEPT !.pc = "done", !.st = "dead", !.res = res]

\* what is kept of a call that ended: its arguments, what it read, did and
\* returned, and the collectors of its daemon object
Ended(q) ==
    [FreshProc EXCEPT !.st = "dead", !.pc = "done", !.cmd = q.cmd,
                      !.arg = q.arg, !.lpid = q.lpid, !.info = q.info, !.log = q.log,
                      !.res = q.res, !.coll = q.coll, !.runExit = q.runExit,
                      !.child = q.child, !.ready = q.ready]

\* a process that has exited: nothing of it is left but its pid
Gone == [FreshProc EXCEPT !.st = "dead"]

\* the processes after process p took the step that leaves it as q; when the
\* step ended p's call, the ended call is kept in `last`, with the daemon
\* record as it is when the call ends
Stepped(pr, p, q) ==
    /\ proc' = [pr EXCEPT ![p] = IF q.st = "live" THEN q ELSE Gone]
    /\ last' = IF q.pc = "done" THEN [Ended(q) EXCEPT !.recAfter = rec'] ELSE last
    /\ UNCHANGED cvars

Init ==
    /\ rec = NoRow
    /\ dirs = <<>>
    /\ nextPid = 1
    /\ proc = [p \in PIDs |-> FreshProc]
    /\ last = FreshProc
    /\ CollectorsStart("daemon", [x \in Files |-> 0], <<>>, <<>>, Idle)

\* the users are interchangeable: the first process is run by u1
LaunchUsers == IF nextPid = 1 THEN {"u1"} ELSE Users

\* the process a user starts for one command (cli.py 263-311: vault watch
\* start [--foreground] / stop / status), at the entry of its call
Launched(cmd, uid, arg) ==
    [FreshProc EXCEPT !.st = "live", !.self = nextPid, !.uid = uid,
                      !.cmd = cmd, !.arg = arg, !.pc = EntryPc(cmd)]

\* the new process has taken its first step, which leaves it as q
Arrived(q) ==
    /\ nextPid \in PIDs
    /\ Stepped(proc, nextPid, q)
    /\ nextPid' = nextPid + 1

Logged(q, e) == [q EXCEPT !.log = Append(@, e)]

\* a direct call of _is_process_running(pid) by a user's process
ProbeCall ==
    \E uid \in LaunchUsers, pid \in ProbePids :
        /\ UNCHANGED <<rec, dirs>>
        /\ LET o == KillOutcomeAs(uid, pid)
               r == is_process_running(o)
               q == [Launched("probe", uid, pid) EXCEPT !.lpid = pid,
                                                        !.log = <<o, ProbeEvent(r)>>]
           IN Arrived(Finish(q, IF r \in {"True", "False"}
                                THEN Returns(NULL, r = "True") ELSE Raises(r)))

\* ---- daemon_status -------------------------------------------------------
\* a daemon_status that returns the record as read, stale or not
StatusInfoAsRead(i, stale, d) ==
    [pid |-> i.pid, started_at |-> i.started_at, status |-> i.status,
     note |-> FALSE, watched_directories |-> Len(list_directories(d))]

\* the dict daemon_status returns: the record as read (line 178), the stale
\* correction (lines 183-185) and the directory count (line 187)
StatusInfo(i, stale, d) ==
    [pid |-> IF stale THEN NULL ELSE i.pid,
     started_at |-> i.started_at,
     status |-> IF stale THEN "stopped" ELSE i.status,
     note |-> stale,
     watched_directories |-> Len(list_directories(d))]

\* lines 177-181, and 187-188 when no pid is recorded
StatusRead ==
    \E uid \in LaunchUsers :
        /\ UNCHANGED <<rec, dirs>>
        /\ LET i == get_daemon_status(rec)
               q == [Launched("status", uid, 0) EXCEPT
                       !.info = StatusInfo(i, FALSE, dirs), !.lpid = i.pid]
           IN Arrived(IF i.pid # NULL THEN [q EXCEPT !.pc = "st_probe"]
                      ELSE Finish(q, Returns(NULL, TRUE)))

\* line 181: the probe of the recorded pid; 187-188 when it is alive
StatusProbe(p) ==
    /\ UNCHANGED <<rec, dirs, nextPid>>
    /\ At(p, {"status"}, "st_probe")
    /\ LET r == Probe(p, proc[p].lpid)
           q == Logged(proc[p], ProbeEvent(r))
       IN Stepped(proc, p,
                  CASE r = "True" ->
                         Finish([q EXCEPT !.info = StatusInfo(@, FALSE, dirs)],
                                Returns(NULL, TRUE))
                    [] r = "False" -> [q EXCEPT !.pc = "st_clear"]
                    [] OTHER -> Finish(q, Raises(r)))

\* lines 182-188: the stale record is cleared and the result annotated
StatusClear(p) ==
    /\ UNCHANGED <<dirs, nextPid>>
    /\ At(p, {"status"}, "st_clear")
    /\ rec' = clear_daemon_pid(rec)
    /\ Stepped(proc, p,
               Finish([Logged(proc[p], "clear") EXCEPT !.info = StatusInfo(@, TRUE, dirs)],
                      Returns(NULL, TRUE)))

\* ---- signals ---------------------------------------------------------------
\* os.kill(pid, sig) with sig a real signal: the signal is left pending on the
\* target when the call succeeds
SendSignal(pr, me, pid, sig) ==
    IF KillOutcome(me, pid) = "ok"
    THEN [pr EXCEPT ![pid] = [@ EXCEPT !.sig = @ \cup {sig}]]
    ELSE pr

Dies(q) == [q EXCEPT !.st = "dead", !.pc = "killed"]

\* the operating system delivers a pending signal.  SIGKILL ends the process;
\* SIGTERM runs WatcherDaemon._signal_handler (lines 91-93) once run has
\* installed it (lines 43-44) and ends the process before that
DeliverSignal(p) ==
    /\ UNCHANGED <<rec, dirs, nextPid>>
    /\ Live(p)
    /\ proc[p].sig # {}
    /\ Stepped(proc, p,
               IF "KILL" \notin proc[p].sig /\ proc[p].handlers
               THEN [proc[p] EXCEPT !.running = FALSE, !.sig = {}]
               ELSE Dies(proc[p]))

\* the daemon process is ended from outside (kill -9, out of memory, power
\* loss): the crash after which the record keeps a stale pid
Crash(p) ==
    /\ UNCHANGED <<rec, dirs, nextPid>>
    /\ Live(p)
    /\ proc[p].cmd \in {"start_fg", "main"}
    /\ proc[p].running \/ proc[p].handlers
    /\ Stepped(proc, p, Dies(proc[p]))

\* ---- stop_daemon -----------------------------------------------------------
\* lines 153-156
StopRead ==
    \E uid \in LaunchUsers, timeout \in Timeouts :
        /\ UNCHANGED <<rec, dirs>>
        /\ LET pid == get_daemon_pid(rec)
               q == Launched("stop", uid, timeout)
           IN Arrived(IF pid = NULL
                      THEN Finish(q, Returns(NULL, FALSE))
                      ELSE [q EXCEPT !.lpid = pid, !.pc = "sp_probe"])

\* line 158
StopProbe(p) ==
    /\ UNCHANGED <<rec, dirs, nextPid>>
    /\ At(p, {"stop"}, "sp_probe")
    /\ LET r == Probe(p, proc[p].lpid)
           q == Logged(proc[p], ProbeEvent(r))
       IN Stepped(proc, p,
                  CASE r = "True" -> [q EXCEPT !.pc = "sp_term"]
                    [] r = "False" -> [q EXCEPT !.pc = "sp_stale"]
                    [] OTHER -> Finish(q, Raises(r)))

\* lines 159-160
StopStale(p) ==
    /\ UNCHANGED <<dirs, nextPid>>
    /\ At(p, {"stop"}, "sp_stale")
    /\ rec' = clear_daemon_pid(rec)
    /\ Stepped(proc, p, Finish(Logged(proc[p], "clear"), Returns(NULL, FALSE)))

\* line 162: os.kill(pid, SIGTERM); an error of os.kill leaves stop_daemon
StopTerm(p) ==
    /\ UNCHANGED <<rec, dirs, nextPid>>
    /\ At(p, {"stop"}, "sp_term")
    /\ LET o == KillOutcome(p, proc[p].lpid) IN
       Stepped(SendSignal(proc, p, proc[p].lpid, "TERM"), p,
               IF o = "ok" THEN [Logged(proc[p], "TERM") EXCEPT !.pc = "sp_loop"]
               ELSE Finish(proc[p], Raises(o)))

\* a polling loop that runs one iteration too many
poll_one_more(timeout) == timeout * 2 + 1

\* the number of iterations of the polling loop (line 164)
poll_iterations(timeout) == timeout * 2

\* lines 164-165, 168: one iteration of the polling loop
StopPoll(p) ==
    /\ UNCHANGED <<rec, dirs, nextPid>>
    /\ At(p, {"stop"}, "sp_loop")
    /\ proc[p].probes < poll_iterations(proc[p].arg)
    /\ LET r == Probe(p, proc[p].lpid)
           q == [Logged(proc[p], ProbeEvent(r)) EXCEPT !.probes = @ + 1]
       IN Stepped(proc, p,
                  CASE r = "True" -> q
                    [] r = "False" -> [q EXCEPT !.pc = "sp_exited"]
                    [] OTHER -> Finish(q, Raises(r)))

\* lines 166-167
StopExited(p) ==
    /\ UNCHANGED <<dirs, nextPid>>
    /\ At(p, {"stop"}, "sp_exited")
    /\ rec' = clear_daemon_pid(rec)
    /\ Stepped(proc, p, Finish(Logged(proc[p], "clear"), Returns(NULL, TRUE)))

\* line 170: the loop ran out; os.kill(pid, SIGKILL)
StopKill(p) ==
    /\ UNCHANGED <<rec, dirs, nextPid>>
    /\ At(p, {"stop"}, "sp_loop")
    /\ proc[p].probes >= poll_iterations(proc[p].arg)
    /\ LET o == KillOutcome(p, proc[p].lpid) IN
       Stepped(SendSignal(proc, p, proc[p].lpid, "KILL"), p,
               IF o = "ok" THEN [Logged(proc[p], "KILL") EXCEPT !.pc = "sp_killed"]
               ELSE Finish(proc[p], Raises(o)))

\* lines 171-172
StopKilled(p) ==
    /\ UNCHANGED <<dirs, nextPid>>
    /\ At(p, {"stop"}, "sp_killed")
    /\ rec' = clear_daemon_pid(rec)
    /\ Stepped(proc, p, Finish(Logged(proc[p], "clear"), Returns(NULL, TRUE)))

\* ---- start_daemon ----------------------------------------------------------
StartCommands == {"start_fg", "start_bg"}
RunCommands == {"start_fg", "main"}

\* lines 117-119: the recorded pid
StartRead ==
    \E cmd \in StartCommands, uid \in LaunchUsers :
        /\ UNCHANGED <<rec, dirs>>
        /\ LET pid == get_daemon_pid(rec)
               q == Launched(cmd, uid, 0)
           IN Arrived(IF pid = NULL
                      THEN [q EXCEPT !.pc = "sd_launch"]
                      ELSE [q EXCEPT !.lpid = pid, !.pc = "sd_probe"])

\* a start_daemon that never takes the early return of lines 119-120
start_always_launches(r) == FALSE

\* the guard of line 119, given the probe's answer: return the existing pid?
start_returns_existing(r) == r = "True"

\* lines 119-120: the probe of the recorded pid
StartProbe(p) ==
    /\ UNCHANGED <<rec, dirs, nextPid>>
    /\ At(p, StartCommands, "sd_probe")
    /\ LET r == Probe(p, proc[p].lpid)
           q == Logged(proc[p], ProbeEvent(r))
       IN Stepped(proc, p,
                  CASE r \notin {"True", "False"} -> Finish(q, Raises(r))
                    [] start_returns_existing(r) -> Finish(q, Returns(proc[p].lpid, TRUE))
                    [] OTHER -> [q EXCEPT !.pc = "sd_launch"])

\* lines 127-128 in the module as it is: os.pipe(), then the name subprocess,
\* which the module never imports (lines 1-14), raises NameError
StartBackgroundNameError(p) ==
    /\ UNCHANGED <<rec, dirs, nextPid>>
    /\ At(p, {"start_bg"}, "sd_launch")
    /\ Stepped(proc, p, Finish(proc[p], Raises("NameError")))

\* ---- WatcherDaemon.run -----------------------------------------------------
\* lines 122-124 (foreground) or 191-195 (the module run as a script), then
\* lines 40-41: the running flag and the daemon record
RunEnter(p) ==
    /\ UNCHANGED <<dirs, nextPid>>
    /\ \/ At(p, {"start_fg"}, "sd_launch")
       \/ At(p, {"main"}, "main_entry")
    /\ rec' = set_daemon_pid(rec, p)
    /\ Stepped(proc, p, [Logged(proc[p], "set") EXCEPT !.running = TRUE, !.pc = "run_sig"])

\* lines 43-52: the handlers of SIGTERM and SIGINT
RunInstallHandlers(p) ==
    /\ UNCHANGED <<rec, dirs, nextPid>>
    /\ At(p, RunCommands, "run_sig")
    /\ Stepped(proc, p, [proc[p] EXCEPT !.handlers = TRUE, !.pc = "run_start"])

\* an except clause that leaves run() at once, without the finally block
except_leaves_run(q, pending) == Finish(q, Raises("Exception"))

\* lines 62-65: an exception raised inside the try block.  The handler closes
\* the readiness pipe; `pending` tells whether os.close itself raises (the
\* descriptor was closed at line 58 already), an exception that then leaves
\* run after the finally block
RunExcept(q, pending) ==
    [q EXCEPT !.wpipe = IF @ = "open" THEN "closed" ELSE @,
              !.exc = pending, !.pc = "fin_stop"]

PendingAfterExcept(q) == IF q.wpipe = "closed" THEN BOOLEAN ELSE {FALSE}

\* a _start_monitors that subscribes to live events before it scans
SubscribeBeforeScan ==
    <<"fw_new", "fw_start", "scan", "cb_new", "cb_start", "hi_new", "hi_start">>

\* the statements of _start_monitors (lines 72-81), in order
StartStatements ==
    <<"fw_new", "scan", "fw_start", "cb_new", "cb_start", "hi_new", "hi_start">>

\* the collector a statement of _start_monitors works on
CollectorOf(stmt) ==
    CASE stmt \in {"fw_new", "scan", "fw_start"} -> "fw"
      [] stmt \in {"cb_new", "cb_start"} -> "cb"
      [] OTHER -> "hi"

\* the state a statement leaves its collector in, from the state s it finds:
\*   line 72  FileWatcher(...) builds the Observer, a thread not yet started;
\*   line 73  initial_scan leaves it so;
\*   line 75  FileWatcher.start schedules the directories, then starts the
\*            Observer; when it raises, the Observer was not started;
\*   77, 80   ClipboardMonitor(...) and HistoryIngestor(...) hold no thread
\*            (_thread is None) until start;
\*   78, 81   start assigns _thread, then starts it; when Thread.start
\*            raises, _thread is a thread that was never started
StatementEffect(stmt, ok, s) ==
    CASE stmt = "fw_new" -> IF ok THEN "unstarted" ELSE s
      [] stmt = "scan" -> s
      [] stmt = "fw_start" -> IF ok THEN "started" ELSE s
      [] stmt \in {"cb_new", "hi_new"} -> IF ok THEN "nothread" ELSE s
      [] OTHER -> IF ok THEN "started" ELSE "unstarted"

\* the collectors after the first n statements, the n-th raising when n = failAt
RECURSIVE start_monitors(_, _, _)
start_monitors(coll, n, failAt) ==
    IF n = 0 THEN coll
    ELSE LET before == start_monitors(coll, n - 1, failAt)
             stmt == StartStatements[n]
             c == CollectorOf(stmt)
         IN [before EXCEPT ![c] = StatementEffect(stmt, n # failAt, @)]

NoFailure == Len(StartStatements) + 1

\* lines 55-56: _start_monitors runs to its end, or one of its statements
\* raises
RunStartMonitors(p) ==
    /\ UNCHANGED <<rec, dirs, nextPid>>
    /\ At(p, RunCommands, "run_start")
    /\ \E failAt \in 1..NoFailure :
         IF failAt = NoFailure
         THEN Stepped(proc, p,
                      [proc[p] EXCEPT !.coll = start_monitors(@, Len(StartStatements), failAt),
                                      !.log = @ \o StartStatements,
                                      !.pc = IF proc[p].wpipe = "none" THEN "run_idle"
                                             ELSE "run_ready"])
         ELSE \E e \in PendingAfterExcept(proc[p]) :
                Stepped(proc, p,
                        RunExcept([proc[p] EXCEPT
                                     !.coll = start_monitors(@, failAt, failAt),
                                     !.log = @ \o SubSeq(StartStatements, 1, failAt - 1)
                                               \o <<"start_raised">>], e))

\* lines 56-58, when a pipe was given: the readiness byte is written and the
\* descriptor closed (without a pipe line 56 leads straight to the idle loop)
RunReady(p) ==
    /\ UNCHANGED <<rec, dirs, nextPid>>
    /\ At(p, RunCommands, "run_ready")
    /\ Stepped(proc, p, [Logged(proc[p], "ready") EXCEPT !.ready = TRUE, !.wpipe = "closed",
                                                         !.pc = "run_idle"])

\* lines 60-61: the idle loop ends once the running flag is cleared
RunIdleExit(p) ==
    /\ UNCHANGED <<rec, dirs, nextPid>>
    /\ At(p, RunCommands, "run_idle")
    /\ ~proc[p].running
    /\ Stepped(proc, p, [proc[p] EXCEPT !.pc = "fin_stop"])

\* lines 60-65: an exception raised in the idle loop
RunIdleRaise(p) ==
    /\ UNCHANGED <<rec, dirs, nextPid>>
    /\ At(p, RunCommands, "run_idle")
    /\ \E e \in PendingAfterExcept(proc[p]) : Stepped(proc, p, RunExcept(proc[p], e))

\* the stop() of one collector (file_watcher.py 99-102, clipboard_monitor.py
\* 35-39, history_ingestor.py 45-49), from the collector's state: the state
\* it is left in, or "RuntimeError" when join is called on a thread that was
\* never started
collector_stop(s) ==
    CASE s = "unstarted" -> "RuntimeError"
      [] OTHER -> "stopped"

StopOrder == <<"fw", "cb", "hi">>

\* _stop_monitors (lines 83-89): the collectors that exist are stopped in
\* order; the first stop() that raises ends the function.  The collectors
\* after the first n of them were handled, and whether a stop() raised
RECURSIVE stop_monitors(_, _)
stop_monitors(coll, n) ==
    IF n = 0 THEN [coll |-> coll, raised |-> FALSE]
    ELSE LET before == stop_monitors(coll, n - 1)
             c == StopOrder[n]
             s == before.coll[c]
         IN IF before.raised \/ s = "none" THEN before
            ELSE IF collector_stop(s) = "RuntimeError"
            THEN [before EXCEPT !.raised = TRUE]
            ELSE [before EXCEPT !.coll[c] = collector_stop(s)]

\* line 67, in the finally block: an exception of _stop_monitors leaves run
\* before line 68
RunStopMonitors(p) ==
    /\ UNCHANGED <<rec, dirs, nextPid>>
    /\ At(p, RunCommands, "fin_stop")
    /\ LET r == stop_monitors(proc[p].coll, Len(StopOrder)) IN
       Stepped(proc, p,
               IF r.raised
               THEN Finish([proc[p] EXCEPT !.coll = r.coll, !.runExit = "raised"],
                           Raises("RuntimeError"))
               ELSE [proc[p] EXCEPT !.coll = r.coll, !.pc = "fin_clear"])

\* lines 68-69, then the return of run and of its caller (line 125)
RunClear(p) ==
    /\ UNCHANGED <<dirs, nextPid>>
    /\ At(p, RunCommands, "fin_clear")
    /\ rec' = clear_daemon_pid(rec)
    /\ Stepped(proc, p,
               IF proc[p].exc
               THEN Finish([Logged(proc[p], "clear") EXCEPT !.runExit = "raised"],
                           Raises("OSError"))
               ELSE Finish([Logged(proc[p], "clear") EXCEPT !.runExit = "returned"],
                           Returns(IF proc[p].cmd = "start_fg" THEN p ELSE NULL, TRUE)))

\* ---- start_daemon in the background, past line 128 ---------------------------
\* lines 127-133 with the name subprocess bound: the child runs the module as
\* a script, holding the write end of the pipe
StartBackgroundPopen(p) ==
    /\ At(p, {"start_bg"}, "sd_launch")
    /\ nextPid \in PIDs
    /\ proc' = [proc EXCEPT
                  ![p] = [Logged(@, "spawn") EXCEPT !.child = nextPid, !.pc = "bg_read"],
                  ![nextPid] = [FreshProc EXCEPT !.st = "live", !.self = nextPid,
                                                 !.uid = proc[p].uid, !.cmd = "main",
                                                 !.pc = "main_entry", !.wpipe = "open"]]
    /\ nextPid' = nextPid + 1
    /\ UNCHANGED <<rec, dirs, last>>
    /\ UNCHANGED cvars

\* the write end of the child's pipe is closed, by the child or by its death
PipeClosed(c) == proc[c].st # "live" \/ proc[c].wpipe # "open"

\* lines 136-137: os.read blocks until a byte arrives or the write end closes;
\* what it returns is not looked at
StartBackgroundRead(p) ==
    /\ UNCHANGED <<rec, dirs, nextPid>>
    /\ At(p, {"start_bg"}, "bg_read")
    /\ PipeClosed(proc[p].child)
    /\ Stepped(proc, p,
               [Logged(proc[p], IF proc[proc[p].child].ready THEN "read_byte" ELSE "read_eof")
                  EXCEPT !.pc = "bg_poll"])

\* lines 139-141
StartBackgroundPoll(p) ==
    /\ UNCHANGED <<rec, dirs, nextPid>>
    /\ At(p, {"start_bg"}, "bg_poll")
    /\ Stepped(proc, p,
               IF proc[proc[p].child].st # "live"
               THEN Finish(proc[p], Raises("RuntimeError"))
               ELSE [proc[p] EXCEPT !.pc = "bg_set"])

\* lines 143-144
StartBackgroundRecord(p) ==
    /\ UNCHANGED <<dirs, nextPid>>
    /\ At(p, {"start_bg"}, "bg_set")
    /\ rec' = set_daemon_pid(rec, proc[p].child)
    /\ Stepped(proc, p, Finish(Logged(proc[p], "set"), Returns(proc[p].child, TRUE)))

\* ---- the specifications ------------------------------------------------------
\* the steps all specifications share
Step(p) ==
    \/ StatusProbe(p)
    \/ StatusClear(p)
    \/ DeliverSignal(p)
    \/ Crash(p)
    \/ StopProbe(p)
    \/ StopStale(p)
    \/ StopTerm(p)
    \/ StopPoll(p)
    \/ StopExited(p)
    \/ StopKill(p)
    \/ StopKilled(p)
    \/ StartProbe(p)
    \/ RunEnter(p)
    \/ RunInstallHandlers(p)
    \/ RunStartMonitors(p)
    \/ RunIdleExit(p)
    \/ RunIdleRaise(p)
    \/ RunStopMonitors(p)
    \/ RunClear(p)

\* the first step of a new process
Enter == StartRead \/ StopRead \/ StatusRead

\* the module as it is
Next ==
    \/ Enter
    \/ \E p \in PIDs : Step(p) \/ StartBackgroundNameError(p)

Spec == Init /\ [][Next]_vars

\* the module with the name subprocess bound, so that line 128 spawns the child
NextSpawn ==
    \/ Enter
    \/ \E p \in PIDs :
        \/ Step(p)
        \/ StartBackgroundPopen(p)
        \/ RunReady(p)
        \/ StartBackgroundRead(p)
        \/ StartBackgroundPoll(p)
        \/ StartBackgroundRecord(p)

SpecSpawn == Init /\ [][NextSpawn]_vars

\* the module as it is, with direct calls of the liveness probe
NextProbe ==
    \/ Enter
    \/ ProbeCall
    \/ \E p \in PIDs : Step(p) \/ StartBackgroundNameError(p)

SpecProbe == Init /\ [][NextProbe]_vars

\* ---- the content store and the end of a unit of work --------------------------
\* Vault.add(documents) (vault.py 31-42) as the collectors see it: the call
\* upserts documents of one source type, keyed by their content, and returns;
\* or it raises and stores nothing
Added(v, source_type, docs, ok) ==
    IF ok
    THEN v \cup {[source_type |-> source_type, content |-> docs[i]] : i \in 1..Len(docs)}
    ELSE v

\* the tables as the connection sees them
Tables ==
    [rec |-> rec, dirs |-> dirs, file_state |-> file_state,
     clipboard_state |-> clipboard_state, history_state |-> history_state]

SetTables(t) ==
    /\ rec' = t.rec
    /\ dirs' = t.dirs
    /\ file_state' = t.file_state
    /\ clipboard_state' = t.clipboard_state
    /\ history_state' = t.history_state

\* a write that also empties the table of watched directories
write_forgets_directories(t, kind, key, value) == [t EXCEPT !.dirs = <<>>]

\* the State Store call a collector makes after its add, on the tables t:
\* upsert_file_state of the path (file_watcher.py 68-72, state.py 112-124),
\* set_last_clipboard_hash (clipboard_monitor.py 91, state.py 137-150),
\* set_last_history_line (history_ingestor.py 132, state.py 156-167)
collector_write(t, kind, key, value) ==
    CASE kind = "file" -> [t EXCEPT !.file_state[key] = value]
      [] kind = "clip" -> [t EXCEPT !.clipboard_state = value]
      [] kind = "hist" -> [t EXCEPT !.history_state = value]

\* a collector that goes on after an add that raised
add_errors_swallowed(ok) == "set"

\* where a collector is after its call of Vault.add: at the write of its marker
\* when the call returned, out of the unit of work when it raised (no collector
\* catches around the add alone)
after_add(ok) == IF ok THEN "set" ELSE "raised"

\* the unit of work u at its end, by return or by an exception that left it,
\* with the marker it leaves behind
EndedUnit(u, outcome, marker) == [u EXCEPT !.pc = outcome, !.marker = marker]

\* what is left of a unit of work when it is over: how it ended (returned,
\* raised, or crashed with the process) and what its add raised on
Summary(u, outcome) ==
    [kind |-> u.kind, pc |-> outcome, n |-> done.n + 1,
     raised |-> IF u.kind \in {"scan", "event"} THEN u.raised
                ELSE IF u.kind = "clip" /\ outcome = "raised" THEN {u.text}
                ELSE {}]

\* no unit of work is in flight and one more can start; the sources change
\* while that is so
CanStartUnit == unit = Idle /\ done.n < MaxUnits

\* the unit of work is over: initial_scan, handle_file, check_and_ingest or
\* _ingest_new_commands is left by return or by exception
UnitReturn ==
    /\ mode \in {"file", "scan", "clip", "hist"}
    /\ unit # Idle /\ unit.pc \in {"returned", "raised"}
    /\ done' = Summary(unit, unit.pc)
    /\ unit' = Idle
    /\ UNCHANGED <<mode, clock, fs, file_state, debounce, clipboard, clipboard_state,
                   history, history_state, vault>>
    /\ UNCHANGED dvars

\* the process dies with a unit of work in flight; the daemon that is started
\* next builds its collectors anew (daemon.py 71-81)
CollectorCrash ==
    /\ mode \in {"file", "clip", "hist"}
    /\ unit # Idle
    /\ done' = Summary(unit, "crashed")
    /\ unit' = Idle
    /\ debounce' = [x \in Files |-> 0]
    /\ UNCHANGED <<mode, clock, fs, file_state, clipboard, clipboard_state,
                   history, history_state, vault>>
    /\ UNCHANGED dvars

\* ---- VaultFileHandler and FileWatcher ------------------------------------------
\* the parts of the watched files' paths
parts ==
    [x \in Files |->
        IF x = "a.py" THEN << <<"a", ".", "p", "y">> >>
        ELSE IF x = "b.py" THEN << <<"b", ".", "p", "y">> >>
        ELSE << <<".", "h", ".", "p", "y">> >>]

\* line 55, of the parts of a path
any_hidden(ps) == \E k \in 1..Len(ps) : startswith(ps[k], <<".">>)

hidden(x) == any_hidden(parts[x])

\* config.py 13-18
supported_extensions ==
    { <<".", "p", "y">>, <<".", "m", "d">>, <<".", "t", "x", "t">>, <<".", "j", "s">>,
      <<".", "t", "s">>, <<".", "j", "s", "x">>, <<".", "t", "s", "x">>,
      <<".", "j", "s", "o", "n">>, <<".", "y", "a", "m", "l">>, <<".", "y", "m", "l">>,
      <<".", "t", "o", "m", "l">>, <<".", "s", "h">>, <<".", "b", "a", "s", "h">>,
      <<".", "c", "s", "s">>, <<".", "h", "t", "m", "l">>, <<".", "s", "q", "l">>,
      <<".", "r", "s">>, <<".", "g", "o">>, <<".", "j", "a", "v", "a">> }
max_file_size_bytes == 1048576

\* Path.suffix of a file name: from its last dot, unless that dot is the
\* first or the last character
suffix(name) ==
    LET dots == {i \in 1..Len(name) : name[i] = "."}
    IN IF dots = {} THEN <<>>
       ELSE LET i == CHOOSE k \in dots : \A j \in dots : j <= k
            IN IF 1 < i /\ i < Len(name) THEN SubSeq(name, i, Len(name)) ELSE <<>>

\* str.lower of a text
lower_text(t) == [i \in 1..Len(t) |-> lower(t[i])]

\* what the file system tells of a path: the parts of the path, what is
\* there (a regular file, a directory, nothing), its size, its content, and
\* whether it can be read.  The watched file x with content c is a regular
\* readable file, empty when c = 0
File(x, c) ==
    [parts |-> parts[x], kind |-> "file", size |-> c, content |-> c, readable |-> TRUE]

\* a read_file that makes a document of whatever it is given
read_file_unfiltered(p) == [some |-> TRUE, content |-> p.content]

\* ingest.read_file (60-86): no document for an unsupported extension,
\* for what is not a regular file, for a file over the size limit, for an
\* empty file and for a file whose read fails with OSError
read_file(p) ==
    IF \/ lower_text(suffix(p.parts[Len(p.parts)])) \notin supported_extensions
       \/ p.kind # "file"
       \/ p.size > max_file_size_bytes
       \/ p.size = 0
       \/ ~p.readable
    THEN [some |-> FALSE, content |-> 0]
    ELSE [some |-> TRUE, content |-> p.content]

\* a handler without the debounce
never_debounced(now, lst) == FALSE

\* line 50
debounced(now, lst) == now - lst < debounce_seconds

\* a handler that takes every file for a changed one
never_unchanged(existing, content_hash) == FALSE

\* a handler that takes every file for an unchanged one
always_unchanged(existing, content_hash) == TRUE

\* line 64: a row exists and holds the hash of the document
unchanged(existing, content_hash) == existing # NoHash /\ existing = content_hash

get_file_state(x) == file_state[x]

\* handle_file, lines 48-65, of the path p whose stored hash is `existing`
\* and whose last handling was at lst: where the call returns False, or that
\* it goes on to add
before_add(p, existing, now, lst) ==
    IF debounced(now, lst) THEN "debounced"
    ELSE IF any_hidden(p.parts) THEN "hidden"
    ELSE IF ~read_file(p).some THEN "no_document"
    ELSE IF unchanged(existing, sha256(read_file(p).content)) THEN "unchanged"
    ELSE "add"

\* the files whose content is not the content last ingested: the files that
\* are not hidden, have a document, and have no row with the hash of its content
Changed(f, st) ==
    {x \in Files : /\ ~hidden(x)
                   /\ read_file(File(x, f[x])).some
                   /\ st[x] # sha256(f[x])}

\* the files whose last handling is less than the debounce time ago
InWindow == {x \in Files : debounced(clock, debounce[x])}

\* the watched directories as the program starts: two rows, added one
\* after the other
WatchedRows == << [path |-> "w1", added_at |-> 1], [path |-> "w2", added_at |-> 2] >>

\* path.glob (line 115) of a watched directory
glob == [d \in {"w1", "w2"} |-> IF d = "w1" THEN <<"a.py">> ELSE <<"b.py", ".h.py">>]

\* lines 110-115: the entries of the watched directories that exist, in the
\* order initial_scan meets them; a directory that is not there is passed
\* over (112-113)
RECURSIVE scan_entries(_, _)
scan_entries(rows, present) ==
    IF rows = <<>> THEN <<>>
    ELSE (IF Head(rows).path \in present THEN glob[Head(rows).path] ELSE <<>>)
             \o scan_entries(Tail(rows), present)

\* all watched directories exist
ScanOrder == scan_entries(list_directories(WatchedRows), {"w1", "w2"})

\* the kinds of behaviour that run the file handler
FileModes == {"file", "scan"}

\* what a scan finds on the disk: the watched directories that exist, and
\* the entries whose stat is refused (an entry of a directory without search
\* permission: Path.is_file raises PermissionError).  A behaviour of kind
\* "file" has all directories and no such entry
ScanEnvs(m) ==
    IF m = "scan"
    THEN [present : SUBSET {"w1", "w2"}, denied : {{}} \cup {{x} : x \in Files}]
    ELSE {[present |-> {"w1", "w2"}, denied |-> {}]}

\* the first of the entries es whose is_file raises, Len(es) + 1 if none does
first_denied(es, denied) ==
    IF \E i \in 1..Len(es) : es[i] \in denied
    THEN CHOOSE i \in 1..Len(es) :
             es[i] \in denied /\ \A j \in 1..(i - 1) : es[j] \notin denied
    ELSE Len(es) + 1

\* time passes, between two units of work: a little less than the debounce
\* time, or the debounce time
Tick ==
    /\ mode \in FileModes
    /\ CanStartUnit
    /\ \E d \in {debounce_seconds - 1, debounce_seconds} :
         /\ clock + d <= MaxClock
         /\ clock' = clock + d
    /\ UNCHANGED <<mode, fs, file_state, debounce, clipboard, clipboard_state,
                   history, history_state, vault, unit, done>>
    /\ UNCHANGED dvars

\* a file that is not hidden is written, between two units of work
WriteFile ==
    /\ mode \in FileModes
    /\ CanStartUnit
    /\ \E x \in Files, c \in Contents :
         /\ ~hidden(x)
         /\ c # fs[x]
         /\ fs' = [fs EXCEPT ![x] = c]
    /\ UNCHANGED <<mode, clock, file_state, debounce, clipboard, clipboard_state,
                   history, history_state, vault, unit, done>>
    /\ UNCHANGED dvars

\* a unit of work of the handler: handle_file for the files todo
FileUnit(kind, todo) ==
    [kind |-> kind, pc |-> "next", todo |-> todo, file |-> "",
     changed0 |-> Changed(fs, file_state), window0 |-> InWindow,
     submitted |-> {}, ingested |-> {}, raised |-> {},
     owed |-> IF done.kind \in {"scan", "event"} /\ done.pc # "crashed"
              THEN done.raised \cap {todo[k] : k \in 1..Len(todo)}
                       \cap Changed(fs, file_state)
              ELSE {},
     again |-> done.kind = "scan" /\ done.pc = "returned",
     restarted |-> done.pc = "crashed",
     marker |-> Changed(fs, file_state),
     aborts |-> FALSE, unreached |-> <<>>, gone |-> {}]

\* FileWatcher.initial_scan, lines 109-116: the directories are listed, the
\* ones that are not there are passed over, and is_file is asked of every
\* entry (line 116, outside the try of lines 117-121): the scan handles the
\* entries before the first one whose is_file raises, and is left by that
\* exception
ScanStart ==
    /\ mode \in FileModes
    /\ CanStartUnit
    /\ \E env \in ScanEnvs(mode) :
         LET es == scan_entries(list_directories(dirs), env.present)
             fd == first_denied(es, env.denied)
             u == [FileUnit("scan", SubSeq(es, 1, fd - 1)) EXCEPT
                      !.aborts = fd <= Len(es),
                      !.unreached = SubSeq(es, fd + 1, Len(es)),
                      !.gone = {"w1", "w2"} \ env.present]
         IN unit' = IF u.todo = <<>>
                    THEN EndedUnit(u, IF u.aborts THEN "raised" ELSE "returned",
                                   u.marker)
                    ELSE u
    /\ UNCHANGED <<mode, clock, fs, file_state, debounce, clipboard, clipboard_state,
                   history, history_state, vault, done>>
    /\ UNCHANGED dvars

\* on_created / on_modified, lines 25-33: the observer reports a file
EventStart ==
    /\ mode = "file"
    /\ CanStartUnit
    /\ \E x \in Files : unit' = FileUnit("event", <<x>>)
    /\ UNCHANGED <<mode, clock, fs, file_state, debounce, clipboard, clipboard_state,
                   history, history_state, vault, done>>
    /\ UNCHANGED dvars

\* handle_file returned, or raised inside initial_scan's try (lines 117-121):
\* the next file, or the end of the unit of work
Continue(u) ==
    /\ unit' = IF u.todo = <<>>
               THEN EndedUnit(u, IF u.aborts THEN "raised" ELSE "returned",
                              Changed(fs, file_state'))
               ELSE u
    /\ done' = done

\* handle_file, lines 45-65: debounce, hidden files, read_file and the
\* comparison with the stored hash
HandleFile ==
    /\ mode \in FileModes
    /\ unit.kind \in {"scan", "event"} /\ unit.pc = "next"
    /\ UNCHANGED <<mode, clock, fs, file_state, clipboard, clipboard_state,
                   history, history_state, vault>>
    /\ LET x == Head(unit.todo)
           u == [unit EXCEPT !.todo = Tail(unit.todo)]
           now == clock
           lst == debounce[x]
           existing == get_file_state(x)
           step == before_add(File(x, fs[x]), existing, now, lst)
       IN IF step = "debounced"
          THEN /\ debounce' = debounce
               /\ Continue(u)
          ELSE /\ debounce' = [debounce EXCEPT ![x] = now]
               /\ IF step # "add"
                  THEN Continue(u)
                  ELSE /\ unit' = [u EXCEPT !.pc = "add", !.file = x]
                       /\ done' = done
    /\ UNCHANGED dvars

\* line 67: vault.add([doc]); an exception leaves handle_file, and is caught by
\* initial_scan (lines 120-121) or reaches the observer's thread
FileAdd ==
    /\ mode \in FileModes
    /\ unit.kind \in {"scan", "event"} /\ unit.pc = "add"
    /\ UNCHANGED <<mode, clock, fs, file_state, debounce, clipboard, clipboard_state,
                   history, history_state>>
    /\ LET x == unit.file
           u == [unit EXCEPT !.submitted = @ \cup {x}]
       IN \E ok \in BOOLEAN :
            /\ vault' = Added(vault, "file", <<read_file(File(x, fs[x])).content>>, ok)
            /\ IF after_add(ok) = "set"
               THEN /\ unit' = [u EXCEPT !.pc = "upsert"]
                    /\ done' = done
               ELSE IF unit.kind = "event"
               THEN /\ unit' = EndedUnit([u EXCEPT !.raised = @ \cup {x}], "raised",
                                          Changed(fs, file_state))
                    /\ done' = done
               ELSE Continue([u EXCEPT !.raised = @ \cup {x}, !.pc = "next"])
    /\ UNCHANGED dvars

\* lines 68-74: upsert_file_state (state.py 112-124), and True is returned
FileUpsert ==
    /\ mode \in FileModes
    /\ unit.kind \in {"scan", "event"} /\ unit.pc = "upsert"
    /\ LET x == unit.file IN
         /\ SetTables(collector_write(Tables, "file", x,
                                      sha256(read_file(File(x, fs[x])).content)))
         /\ Continue([unit EXCEPT !.ingested = @ \cup {x}, !.pc = "next"])
    /\ UNCHANGED <<mode, clock, fs, debounce, clipboard, history, vault>>
    /\ UNCHANGED <<nextPid, proc, last>>

\* ---- HistoryIngestor ------------------------------------------------------------
\* the lines a shell writes to its history file
HistLines ==
    { <<"m", "a", "k", "e", " ", "a", "l", "l", "\n">>,
      <<"l", "s", " ", "-", "l", "a", "\n">>,
      <<"A", "P", "I", "_", "K", "E", "Y", "=", "a", "b", "c", "d", "e", "f", "g", "h", "i", "j", "k", "l", "m", "n", "o", "p", "q", "r", "s", "t", "u", "v", "w", "x", "y", "z", "1", "2", "3", "4", "5", "6", "\n">> }

\* the shell of the history collector (lines 25-33)
shell_name == "zsh"

\* what the shell appends to the history file, between two polls
HistAppend ==
    /\ mode = "hist"
    /\ CanStartUnit
    /\ Len(history) < MaxLines
    /\ \E l \in HistLines : history' = Append(history, l)
    /\ UNCHANGED <<mode, clock, fs, file_state, debounce, clipboard, clipboard_state,
                   history_state, vault, unit, done>>
    /\ UNCHANGED dvars

\* the history file is truncated or rotated: fewer lines than before
HistTruncate ==
    /\ mode = "hist"
    /\ CanStartUnit
    /\ \E k \in 0..(Len(history) - 1) : history' = SubSeq(history, 1, k)
    /\ UNCHANGED <<mode, clock, fs, file_state, debounce, clipboard, clipboard_state,
                   history_state, vault, unit, done>>
    /\ UNCHANGED dvars

get_last_history_line == history_state

\* a poll that forgets the cursor
every_line_is_new(last_line, n) == 0

\* lines 101-104: the index the new lines start at
new_lines_from(last_line, n) == IF last_line > n THEN 0 ELSE last_line

\* a loop that never flushes: every document waits for the add after the loop
batch_never_full(n) == FALSE

\* line 123: the batch of n documents is added now
batch_full(n) == n >= history_batch_size

\* lines 111-126 from line index i (lines before it are consumed) with the
\* batch built so far: the loop runs to the end of the lines, or to the line
\* that fills the batch
RECURSIVE fill_batch(_, _, _)
fill_batch(lines, i, batch) ==
    IF i = Len(lines) THEN [i |-> i, batch |-> batch, full |-> FALSE]
    ELSE LET command == parse_history_line(shell_name, lines[i + 1]) IN
         IF ~command.some THEN fill_batch(lines, i + 1, batch)
         ELSE IF batch_full(Len(batch) + 1)
         THEN [i |-> i + 1, batch |-> Append(batch, command.text), full |-> TRUE]
         ELSE fill_batch(lines, i + 1, Append(batch, command.text))

\* lines 88-106: the cursor and the file are read (the file does not change
\* while the poll works on the lines it read); without new lines the poll
\* returns 0
HistPoll ==
    /\ mode = "hist"
    /\ CanStartUnit
    /\ LET lines == history
           cursor == get_last_history_line
           last_line == new_lines_from(cursor, Len(lines))
           u == [kind |-> "hist", pc |-> "loop", len |-> Len(lines),
                 cursor |-> cursor, last_line |-> last_line, i |-> last_line,
                 batch |-> <<>>, calls |-> <<>>, marker |-> history_state,
                 retry |-> done.kind = "hist" /\ done.pc = "raised",
                 restarted |-> done.pc = "crashed"]
       IN IF last_line >= Len(lines)
          THEN unit' = EndedUnit(u, "returned", history_state)
          ELSE unit' = u
    /\ done' = done
    /\ UNCHANGED <<mode, clock, fs, file_state, debounce, clipboard, clipboard_state,
                   history, history_state, vault>>
    /\ UNCHANGED dvars

\* lines 111-126: the loop up to a full batch, which is added
HistBatch ==
    /\ mode = "hist"
    /\ unit.kind = "hist" /\ unit.pc = "loop"
    /\ LET r == fill_batch(history, unit.i, unit.batch) IN
       /\ r.full
       /\ \E ok \in BOOLEAN :
            /\ vault' = Added(vault, "terminal", r.batch, ok)
            /\ unit' = IF after_add(ok) = "set"
                       THEN [unit EXCEPT !.i = r.i, !.batch = <<>>,
                                         !.calls = Append(@, r.batch)]
                       ELSE EndedUnit([unit EXCEPT !.i = r.i, !.batch = r.batch,
                                                   !.calls = Append(@, r.batch)],
                                      "raised", history_state)
            /\ done' = done
    /\ UNCHANGED <<mode, clock, fs, file_state, debounce, clipboard, clipboard_state,
                   history, history_state>>
    /\ UNCHANGED dvars

\* lines 111-130: the loop to the end of the lines, and the last batch added
HistLastBatch ==
    /\ mode = "hist"
    /\ unit.kind = "hist" /\ unit.pc = "loop"
    /\ LET r == fill_batch(history, unit.i, unit.batch)
           u == [unit EXCEPT !.i = r.i, !.batch = r.batch]
       IN /\ ~r.full
          /\ done' = done
          /\ IF r.batch = <<>>
             THEN /\ unit' = [u EXCEPT !.pc = "set"]
                  /\ vault' = vault
             ELSE \E ok \in BOOLEAN :
                    /\ vault' = Added(vault, "terminal", r.batch, ok)
                    /\ unit' = IF after_add(ok) = "set"
                               THEN [u EXCEPT !.pc = "set", !.calls = Append(@, r.batch)]
                               ELSE EndedUnit([u EXCEPT !.calls = Append(@, r.batch)],
                                              "raised", history_state)
    /\ UNCHANGED <<mode, clock, fs, file_state, debounce, clipboard, clipboard_state,
                   history, history_state>>
    /\ UNCHANGED dvars

\* lines 132-134: set_last_history_line(len(lines)) (state.py 156-167)
HistSetCursor ==
    /\ mode = "hist"
    /\ unit.kind = "hist" /\ unit.pc = "set"
    /\ SetTables(collector_write(Tables, "hist", NULL, unit.len))
    /\ unit' = EndedUnit(unit, "returned", history_state')
    /\ done' = done
    /\ UNCHANGED <<mode, clock, fs, debounce, clipboard, history, vault>>
    /\ UNCHANGED <<nextPid, proc, last>>

\* ---- ClipboardMonitor -----------------------------------------------------------
\* what pbpaste gives: nothing (None or the empty text), or a text
ClipTexts ==
    { <<>>,
      <<"s", "h", "o", "r", "t">>,
      <<"m", "a", "k", "e", " ", "i", "n", "s", "t", "a", "l", "l">>,
      <<" ", "m", "a", "k", "e", " ", "i", "n", "s", "t", "a", "l", "l", "\n">>,
      <<"A", "P", "I", "_", "K", "E", "Y", "=", "a", "b", "c", "d", "e", "f", "g", "h", "i", "j", "k", "l", "m", "n", "o", "p", "q", "r", "s", "t", "u", "v", "w", "x", "y", "z", "1", "2", "3", "4", "5", "6">> }

\* the user copies something, between two polls
ClipCopy ==
    /\ mode = "clip"
    /\ CanStartUnit
    /\ \E t \in ClipTexts : t # clipboard /\ clipboard' = t
    /\ UNCHANGED <<mode, clock, fs, file_state, debounce, clipboard_state,
                   history, history_state, vault, unit, done>>
    /\ UNCHANGED dvars

get_last_clipboard_hash == clipboard_state

\* lines 73-76: the length filter, on the length of the text as read and the
\* length of text.strip()
rejected_by_length(text_len, stripped_len) ==
    \/ stripped_len < clipboard_min_length
    \/ text_len > clipboard_max_length

\* a poll that takes every value for a new one
never_same_as_last(current_hash, last_hash) == FALSE

\* line 82
same_as_last(current_hash, last_hash) == current_hash = last_hash

\* check_and_ingest, lines 72-83: the text is read, filtered by its length,
\* trimmed, hashed and compared with the last hash
ClipCheck ==
    /\ mode = "clip"
    /\ CanStartUnit
    /\ LET text == clipboard
           stripped == strip(text)
           current_hash == sha256(stripped)
           last_hash == get_last_clipboard_hash
           u == [kind |-> "clip", pc |-> "add", text |-> stripped,
                 hash |-> current_hash, last_hash |-> last_hash,
                 marker |-> clipboard_state, result |-> FALSE, why |-> "new",
                 again |-> FALSE,
                 retry |-> done.kind = "clip" /\ done.raised = {stripped},
                 restarted |-> done.pc = "crashed"]
       IN IF \/ text = <<>>
             \/ rejected_by_length(Len(text), Len(stripped))
          THEN unit' = EndedUnit([u EXCEPT !.why = "filtered"], "returned",
                                 clipboard_state)
          ELSE IF same_as_last(current_hash, last_hash)
          THEN unit' = EndedUnit([u EXCEPT !.why = "same"], "returned",
                                 clipboard_state)
          ELSE unit' = u
    /\ done' = done
    /\ UNCHANGED <<mode, clock, fs, file_state, debounce, clipboard, clipboard_state,
                   history, history_state, vault>>
    /\ UNCHANGED dvars

\* lines 85-90: the document is made and added; an exception leaves the poll
\* (caught in _poll_loop, lines 64-67)
ClipAdd ==
    /\ mode = "clip"
    /\ unit.kind = "clip" /\ unit.pc = "add"
    /\ LET u == [unit EXCEPT !.again =
                    [source_type |-> "clipboard", content |-> unit.text] \in vault]
       IN \E ok \in BOOLEAN :
            /\ vault' = Added(vault, "clipboard", <<unit.text>>, ok)
            /\ unit' = IF after_add(ok) = "set"
                       THEN [u EXCEPT !.pc = "set"]
                       ELSE EndedUnit(u, "raised", clipboard_state)
            /\ done' = done
    /\ UNCHANGED <<mode, clock, fs, file_state, debounce, clipboard, clipboard_state,
                   history, history_state>>
    /\ UNCHANGED dvars

\* lines 91-93: set_last_clipboard_hash(current_hash) (state.py 137-148), and
\* True is returned
ClipSetHash ==
    /\ mode = "clip"
    /\ unit.kind = "clip" /\ unit.pc = "set"
    /\ SetTables(collector_write(Tables, "clip", NULL, unit.hash))
    /\ unit' = EndedUnit([unit EXCEPT !.result = TRUE], "returned", clipboard_state')
    /\ done' = done
    /\ UNCHANGED <<mode, clock, fs, debounce, clipboard, history, vault>>
    /\ UNCHANGED <<nextPid, proc, last>>

\* ---- parse_history_line on its own --------------------------------------------
\* the pieces history lines are made of
LinePieces ==
    { <<" ">>, <<"\n">>, <<";">>, <<"/">>, <<":", " ">>,
      <<":", " ", "1", ":", "0", ";">>,
      <<"l", "s", " ", "-", "l", "a">>,
      <<"m", "a", "k", "e", " ", "a", "l", "l">> }

\* the lines of at most n pieces
RECURSIVE LinesOf(_)
LinesOf(n) ==
    IF n = 0 THEN {<<>>}
    ELSE LinesOf(n - 1) \cup {l \o q : l \in LinesOf(n - 1), q \in LinePieces}

InitParse ==
    /\ rec = NoRow
    /\ dirs = <<>>
    /\ nextPid = 1
    /\ proc = [p \in PIDs |-> FreshProc]
    /\ last = FreshProc
    /\ \E sh \in Shells, line \in LinesOf(MaxPieces) :
         CollectorsStart("parse", [x \in Files |-> 0], <<>>, <<>>,
                         [kind |-> "parse", pc |-> "call", shell_name |-> sh,
                          line |-> line, result |-> NoCommand])

\* one call of parse_history_line
ParseLine ==
    /\ mode = "parse"
    /\ unit.kind = "parse" /\ unit.pc = "call"
    /\ unit' = [unit EXCEPT !.pc = "returned",
                            !.result = parse_history_line(unit.shell_name, unit.line)]
    /\ UNCHANGED <<mode, clock, fs, file_state, debounce, clipboard, clipboard_state,
                   history, history_state, vault, done>>
    /\ UNCHANGED dvars

SpecParse == InitParse /\ [][ParseLine]_vars

\* ---- the collectors, one kind in a behaviour ------------------------------------
\* the collectors work on disjoint tables and sources (a file's fingerprint,
\* the clipboard hash, the history cursor): a behaviour follows one of them
InitCollect ==
    /\ rec = NoRow
    /\ dirs = WatchedRows
    /\ nextPid = 1
    /\ proc = [p \in PIDs |-> FreshProc]
    /\ last = FreshProc
    /\ \E m \in {"file", "clip", "hist"} :
         CollectorsStart(m, [x \in Files |-> 0], <<>>, <<>>, Idle)

NextCollect ==
    \/ CollectorCrash
    \/ UnitReturn
    \/ Tick
    \/ WriteFile
    \/ ScanStart
    \/ EventStart
    \/ HandleFile
    \/ FileAdd
    \/ FileUpsert
    \/ ClipCopy
    \/ ClipCheck
    \/ ClipAdd
    \/ ClipSetHash
    \/ HistAppend
    \/ HistTruncate
    \/ HistPoll
    \/ HistBatch
    \/ HistLastBatch
    \/ HistSetCursor

SpecCollect == InitCollect /\ [][NextCollect]_vars

\* ---- models.py: Document ---------------------------------------------------------
\* the documents the program builds (ingest.py 13-22, 78-85, 114-123): content,
\* and metadata that names the source
SourceTypes == {"manual", "file", "clipboard", "terminal"}
Documents ==
    [content : Contents, source_type : SourceTypes, timestamp : {"t", "t2"},
     file_path : {"none", "a.py"}, tags : {<<>>, <<"chunk:1/2">>}]

\* an id that also tells the source apart
id_of_content_and_source(doc) == <<"doc_", sha256(<<doc.content, doc.source_type>>)>>

\* Document.generate_id: "doc_" and the head of the SHA-256 of the content
generate_id(doc) == <<"doc_", sha256(doc.content)>>

\* no process, no daemon record: the daemon is not part of the behaviour
NoDaemon ==
    /\ rec = NoRow
    /\ dirs = <<>>
    /\ nextPid = 1
    /\ proc = [p \in PIDs |-> FreshProc]
    /\ last = FreshProc

NoId == <<"none">>

\* two documents, built and not yet given their ids
InitDoc ==
    /\ NoDaemon
    /\ \E d1 \in Documents, d2 \in Documents :
         CollectorsStart("doc", [x \in Files |-> 0], <<>>, <<>>,
                         [kind |-> "doc", pc |-> "call", docs |-> <<d1, d2>>,
                          ids |-> <<NoId, NoId>>])

\* doc.generate_id() for one of them
GenerateId ==
    /\ mode = "doc"
    /\ unit.kind = "doc" /\ unit.pc = "call"
    /\ \E i \in 1..2 :
         /\ unit.ids[i] = NoId
         /\ LET ids == [unit.ids EXCEPT ![i] = generate_id(unit.docs[i])]
            IN unit' = [unit EXCEPT !.ids = ids,
                                    !.pc = IF \A j \in 1..2 : ids[j] # NoId
                                           THEN "returned" ELSE "call"]
    /\ UNCHANGED <<mode, clock, fs, file_state, debounce, clipboard, clipboard_state,
                   history, history_state, vault, done>>
    /\ UNCHANGED dvars

SpecDoc == InitDoc /\ [][GenerateId]_vars

\* ---- the length filter of check_and_ingest on its own --------------------------
\* a clipboard text by its lengths: `lead` whitespace characters, a body of
\* `body` characters that neither begins nor ends with whitespace, and `trail`
\* whitespace characters.  len(text) and len(text.strip()) of such a text:
text_length(t) == t.lead + t.body + t.trail
stripped_length(t) == t.body

\* the body lengths around the two limits
BodyLengths ==
    {0, 1, clipboard_min_length - 1, clipboard_min_length, clipboard_min_length + 1,
     clipboard_max_length - 1, clipboard_max_length, clipboard_max_length + 1}

\* a text that has no body is whitespace only: all of it is leading
LongTexts ==
    {t \in [lead : 0..MaxPad, body : BodyLengths, trail : 0..MaxPad] :
        t.body = 0 => t.trail = 0}

InitLength ==
    /\ NoDaemon
    /\ \E t \in LongTexts :
         CollectorsStart("length", [x \in Files |-> 0], <<>>, <<>>,
                         [kind |-> "length", pc |-> "call", text |-> t,
                          why |-> "none", result |-> FALSE, added |-> FALSE])

\* check_and_ingest, lines 72-76, of a text that is new: it is rejected by
\* its length (False, nothing added, the hash not written), or goes on to be
\* hashed, added and recorded
LengthFilter ==
    /\ mode = "length"
    /\ unit.kind = "length" /\ unit.pc = "call"
    /\ unit' = IF \/ text_length(unit.text) = 0
                  \/ rejected_by_length(text_length(unit.text),
                                        stripped_length(unit.text))
               THEN [unit EXCEPT !.pc = "returned", !.why = "filtered"]
               ELSE [unit EXCEPT !.pc = "returned", !.why = "new",
                                 !.result = TRUE, !.added = TRUE]
    /\ UNCHANGED <<mode, clock, fs, file_state, debounce, clipboard, clipboard_state,
                   history, history_state, vault, done>>
    /\ UNCHANGED dvars

SpecLength == InitLength /\ [][LengthFilter]_vars

\* ---- one handle_file call on its own --------------------------------------------
\* the paths handed to handle_file, by their parts
HandledParts ==
    { << <<"a", ".", "p", "y">> >>,
      << <<".", "h", ".", "p", "y">> >>,
      << <<".", "g", "i", "t">>, <<"c", ".", "p", "y">> >>,
      << <<"s", "r", "c">>, <<"A", ".", "P", "Y">> >>,
      << <<"a", ".", "e", "x", "e">> >>,
      << <<"n", "o", "t", "e", "s">> >> }

\* what is found at the path: an empty file has no content
HandledPaths ==
    {p \in [parts : HandledParts, kind : {"file", "dir", "missing"},
            size : {0, 1, max_file_size_bytes, max_file_size_bytes + 1},
            content : Contents, readable : BOOLEAN] :
        (p.size = 0) <=> (p.content = 0)}

\* the path, the hash stored for it (none, that of its content, another)
\* and the time of its last handling (none, or one second into the program)
InitHandle ==
    /\ NoDaemon
    /\ \E p \in HandledPaths, lst \in {0, 1} :
       \E existing \in {NoHash, sha256(p.content), sha256(p.content + 1)} :
         CollectorsStart("handle", [x \in Files |-> 0], <<>>, <<>>,
                         [kind |-> "handle", pc |-> "call", path |-> p,
                          existing |-> existing, lst |-> lst, step |-> "none",
                          result |-> FALSE, submitted |-> FALSE,
                          hash |-> existing, stamp |-> lst])

\* handle_file, lines 45-74, with the add and the upsert
HandleCall ==
    /\ mode = "handle"
    /\ unit.kind = "handle" /\ unit.pc = "call"
    /\ LET p == unit.path
           step == before_add(p, unit.existing, clock, unit.lst)
           u == [unit EXCEPT !.step = step, !.pc = "returned"]
       IN IF step = "debounced"
          THEN unit' = u /\ vault' = vault
          ELSE IF step # "add"
          THEN unit' = [u EXCEPT !.stamp = clock] /\ vault' = vault
          ELSE \E ok \in BOOLEAN :
                 /\ vault' = Added(vault, "file", <<read_file(p).content>>, ok)
                 /\ unit' = IF after_add(ok) = "set"
                            THEN [u EXCEPT !.stamp = clock, !.submitted = TRUE,
                                           !.hash = sha256(read_file(p).content),
                                           !.result = TRUE]
                            ELSE [u EXCEPT !.stamp = clock, !.submitted = TRUE,
                                           !.pc = "raised"]
    /\ UNCHANGED <<mode, clock, fs, file_state, debounce, clipboard, clipboard_state,
                   history, history_state, done>>
    /\ UNCHANGED dvars

SpecHandle == InitHandle /\ [][HandleCall]_vars

\* ---- initial_scan over directories that may be gone or closed -------------------
InitScan ==
    /\ rec = NoRow
    /\ dirs = WatchedRows
    /\ nextPid = 1
    /\ proc = [p \in PIDs |-> FreshProc]
    /\ last = FreshProc
    /\ CollectorsStart("scan", [x \in Files |-> 0], <<>>, <<>>, Idle)

NextScan ==
    \/ UnitReturn
    \/ Tick
    \/ WriteFile
    \/ ScanStart
    \/ HandleFile
    \/ FileAdd
    \/ FileUpsert

SpecScan == InitScan /\ [][NextScan]_vars

\* ---- the workers of a running daemon ---------------------------------------------
\* shutil.which("pbpaste") finds nothing
NoPbpaste == <<"no pbpaste">>

\* a _get_clipboard that goes on polling without pbpaste
missing_ignored(stop_event) == stop_event

\* clipboard_monitor.py 43-46: the stop event after pbpaste was not found
stop_after_missing(stop_event) == TRUE

\* the daemon after _start_monitors (daemon.py 71-81): the observer thread
\* runs, the two poll threads are at the test of their loops with their own
\* stop events cleared (clipboard_monitor.py 25-33, history_ingestor.py 35-43)
\* and run() is in its loop (daemon.py 59-60).  cb_missing_at is the number
\* of the poll that found no pbpaste, 0 before; cb_limit and hi_limit are the
\* polls a worker had begun when its stop event was first set (no limit
\* before that); cb_cut and hi_cut tell that the join of the worker returned
\* with the worker inside a poll
Workers ==
    [kind |-> "loop", running |-> TRUE, main |-> "loop", fw |-> "running",
     cb_pc |-> "test", cb_stop |-> FALSE, cb_polls |-> 0, cb_missing_at |-> 0,
     cb_caught |-> FALSE, cb_limit |-> MaxUnits, cb_cut |-> FALSE,
     hi_pc |-> "test", hi_stop |-> FALSE, hi_polls |-> 0, hi_limit |-> MaxUnits,
     hi_cut |-> FALSE]

PollWorkers == {"cb", "hi"}

\* the polls a worker has begun: those it made and the one in flight
begun(pc, polls) == IF pc = "poll" THEN polls + 1 ELSE polls

\* self._stop_event.set() of worker w, in the state u
stop_event_set(u, w) ==
    IF w = "cb"
    THEN [u EXCEPT !.cb_stop = TRUE,
                   !.cb_limit = IF u.cb_stop THEN @ ELSE begun(u.cb_pc, u.cb_polls)]
    ELSE [u EXCEPT !.hi_stop = TRUE,
                   !.hi_limit = IF u.hi_stop THEN @ ELSE begun(u.hi_pc, u.hi_polls)]

\* a loop that does not look at the stop event
poll_regardless(stop_event) == TRUE

\* the test of the while loop: another cycle?
poll_again(stop_event) == ~stop_event

\* the history file is empty and stays so; pbpaste is there or not, with an
\* empty clipboard or a text of the lengths that are ingested
InitLoop ==
    /\ NoDaemon
    /\ \E c \in {NoPbpaste, <<>>, <<"m", "a", "k", "e", " ", "i", "n", "s", "t", "a", "l", "l">>} :
         CollectorsStart("loop", [x \in Files |-> 0], c, <<>>, Workers)

LoopFrame ==
    /\ UNCHANGED <<mode, clock, fs, file_state, debounce, history, history_state, done>>
    /\ UNCHANGED dvars

\* the user copies something; pbpaste is removed, or installed
LoopCopy ==
    /\ mode = "loop"
    /\ \E t \in ClipTexts \cup {NoPbpaste} : t # clipboard /\ clipboard' = t
    /\ UNCHANGED <<clipboard_state, vault, unit>>
    /\ LoopFrame

\* _poll_loop, line 63 of clipboard_monitor.py and line 52 of
\* history_ingestor.py: while not self._stop_event.is_set()
\* (a worker that has made MaxUnits polls stays in its wait until it is stopped)
LoopTest(w) ==
    /\ mode = "loop"
    /\ IF w = "cb"
       THEN /\ unit.cb_pc = "test"
            /\ ~poll_again(unit.cb_stop) \/ unit.cb_polls < MaxUnits
            /\ unit' = [unit EXCEPT !.cb_pc = IF poll_again(unit.cb_stop)
                                              THEN "poll" ELSE "exited"]
       ELSE /\ unit.hi_pc = "test"
            /\ ~poll_again(unit.hi_stop) \/ unit.hi_polls < MaxUnits
            /\ unit' = [unit EXCEPT !.hi_pc = IF poll_again(unit.hi_stop)
                                              THEN "poll" ELSE "exited"]
    /\ UNCHANGED <<clipboard, clipboard_state, vault>>
    /\ LoopFrame

\* lines 64-67: check_and_ingest inside the try.  Without pbpaste
\* _get_clipboard sets the stop event and gives None (43-46); with it, pbpaste
\* may exit with an error (CalledProcessError, line 58) and the add may raise:
\* both are caught at line 66
ClipLoopPoll ==
    /\ mode = "loop"
    /\ unit.cb_pc = "poll" /\ unit.cb_polls < MaxUnits
    /\ LET u == [unit EXCEPT !.cb_pc = "wait", !.cb_polls = @ + 1]
           caught == [u EXCEPT !.cb_caught = TRUE]
           text == clipboard
           stripped == strip(text)
           current_hash == sha256(stripped)
       IN IF clipboard = NoPbpaste
          THEN /\ unit' = [(IF stop_after_missing(unit.cb_stop)
                             THEN [stop_event_set(unit, "cb") EXCEPT
                                      !.cb_pc = "wait", !.cb_polls = @ + 1]
                             ELSE u)
                              EXCEPT !.cb_missing_at =
                                        IF @ = 0 THEN unit.cb_polls + 1 ELSE @]
               /\ UNCHANGED <<clipboard_state, vault>>
          ELSE \/ unit' = caught /\ UNCHANGED <<clipboard_state, vault>>
               \/ /\ \/ text = <<>>
                     \/ rejected_by_length(Len(text), Len(stripped))
                     \/ same_as_last(current_hash, get_last_clipboard_hash)
                  /\ unit' = u /\ UNCHANGED <<clipboard_state, vault>>
               \/ /\ text # <<>>
                  /\ ~rejected_by_length(Len(text), Len(stripped))
                  /\ ~same_as_last(current_hash, get_last_clipboard_hash)
                  /\ \E ok \in BOOLEAN :
                       /\ vault' = Added(vault, "clipboard", <<stripped>>, ok)
                       /\ IF after_add(ok) = "set"
                          THEN unit' = u /\ clipboard_state' = current_hash
                          ELSE unit' = caught /\ clipboard_state' = clipboard_state
    /\ UNCHANGED clipboard
    /\ LoopFrame

\* history_ingestor.py 53-56: _ingest_new_commands of the empty history file
\* reads no line and returns 0 (lines 96-106)
HistLoopPoll ==
    /\ mode = "loop"
    /\ unit.hi_pc = "poll" /\ unit.hi_polls < MaxUnits
    /\ history = <<>> /\ new_lines_from(get_last_history_line, Len(history)) = 0
    /\ unit' = [unit EXCEPT !.hi_pc = "wait", !.hi_polls = @ + 1]
    /\ UNCHANGED <<clipboard, clipboard_state, vault>>
    /\ LoopFrame

\* self._stop_event.wait(timeout=...) returns, at once when the event is set
LoopWait(w) ==
    /\ mode = "loop"
    /\ IF w = "cb"
       THEN unit.cb_pc = "wait" /\ unit' = [unit EXCEPT !.cb_pc = "test"]
       ELSE unit.hi_pc = "wait" /\ unit' = [unit EXCEPT !.hi_pc = "test"]
    /\ UNCHANGED <<clipboard, clipboard_state, vault>>
    /\ LoopFrame

\* daemon.py 92-94: SIGTERM or SIGINT arrives
LoopSignal ==
    /\ mode = "loop"
    /\ unit.running
    /\ unit' = [unit EXCEPT !.running = FALSE]
    /\ UNCHANGED <<clipboard, clipboard_state, vault>>
    /\ LoopFrame

\* daemon.py 59-60 and 65-67: the loop of run() ends and _stop_monitors
\* (84-90) stops the observer, then calls ClipboardMonitor.stop, which sets
\* the stop event (clipboard_monitor.py 36) and joins the worker
LoopStop ==
    /\ mode = "loop"
    /\ ~unit.running /\ unit.main = "loop"
    /\ unit' = [stop_event_set(unit, "cb") EXCEPT !.main = "cb_join", !.fw = "stopped"]
    /\ UNCHANGED <<clipboard, clipboard_state, vault>>
    /\ LoopFrame

\* a join that waits for the thread however long it takes
join_without_timeout(pc) == pc = "exited"

\* a stop() that does not join
join_skipped(pc) == TRUE

\* self._thread.join(timeout=10.0) returns (clipboard_monitor.py 37-38,
\* history_ingestor.py 47-48): the thread has ended, or the ten seconds are
\* over with the thread inside a poll, whose pbpaste, file read and Vault.add
\* (an embedding request to Ollama, vault.py 13-41) take the time they take
join_returns(pc) == pc = "exited" \/ pc = "poll"

\* stop() of the clipboard monitor returns and HistoryIngestor.stop sets its
\* event (history_ingestor.py 46); stop() of the history ingestor returns
LoopJoin(w) ==
    /\ mode = "loop"
    /\ IF w = "cb"
       THEN /\ unit.main = "cb_join" /\ join_returns(unit.cb_pc)
            /\ unit' = [stop_event_set(unit, "hi") EXCEPT
                            !.main = "hi_join", !.cb_cut = unit.cb_pc = "poll"]
       ELSE /\ unit.main = "hi_join" /\ join_returns(unit.hi_pc)
            /\ unit' = [unit EXCEPT !.main = "clear", !.hi_cut = unit.hi_pc = "poll"]
    /\ UNCHANGED <<clipboard, clipboard_state, vault>>
    /\ LoopFrame

\* daemon.py 68-69: clear_daemon_pid, after which run() returns
LoopClear ==
    /\ mode = "loop"
    /\ unit.main = "clear"
    /\ unit' = [unit EXCEPT !.main = "stopped"]
    /\ UNCHANGED <<clipboard, clipboard_state, vault>>
    /\ LoopFrame

NextLoop ==
    \/ LoopCopy
    \/ \E w \in PollWorkers : LoopTest(w)
    \/ ClipLoopPoll
    \/ HistLoopPoll
    \/ \E w \in PollWorkers : LoopWait(w)
    \/ LoopSignal
    \/ LoopStop
    \/ \E w \in PollWorkers : LoopJoin(w)
    \/ LoopClear

SpecLoop == InitLoop /\ [][NextLoop]_vars

\* the next step of the worker thread w: its loop test, its poll or its wait
WorkerStep(w) ==
    \/ LoopTest(w)
    \/ IF w = "cb" THEN ClipLoopPoll ELSE HistLoopPoll
    \/ LoopWait(w)

\* the threads of the daemon alone, the clipboard left as it is
NextThreads ==
    \/ \E w \in PollWorkers : LoopTest(w)
    \/ ClipLoopPoll
    \/ HistLoopPoll
    \/ \E w \in PollWorkers : LoopWait(w)
    \/ LoopSignal
    \/ LoopStop
    \/ \E w \in PollWorkers : LoopJoin(w)
    \/ LoopClear

\* the threads of the process are scheduled: a worker that can take its next
\* step takes it, and a poll in flight returns
SpecLoopFair ==
    /\ InitLoop /\ [][NextThreads]_vars
    /\ \A w \in PollWorkers : WF_vars(WorkerStep(w))

\* ---- watcher/state.py: one WatcherState shared by the threads of a process ------
\* The tables rec, dirs, file_state, clipboard_state and history_state are
\* what a statement on the one connection (state.py 23, check_same_thread =
\* False) sees: the committed rows and the rows changed by statements not yet
\* committed.  unit.committed is what the database file holds.
Threads == {1, 2}
\* no thread: the lock is free
NoThread == NULL
WatchedPaths == <<"w1", "w2">>
\* the times datetime.now gives, an earlier and a later one
WallTimes == {1, 2}

\* INSERT INTO watched_directories (68-76): the path is UNIQUE
add_directory(d, path, now) == Append(d, [path |-> path, added_at |-> now])
\* DELETE FROM watched_directories WHERE path = ? (86-90)
remove_directory(d, path) == SelectSeq(d, LAMBDA r : r.path # path)
has_directory(d, path) == \E k \in 1..Len(d) : d[k].path = path

\* the paths of rows
paths_of(rows) == [k \in 1..Len(rows) |-> rows[k].path]

\* the tables after create_tables (29-64): no row in any of them
EmptyTables ==
    [rec |-> NoRow, dirs |-> <<>>, file_state |-> [x \in Files |-> NoHash],
     clipboard_state |-> NoHash, history_state |-> 0]

\* the statement of the mutating call o on the tables t
statement(t, o) ==
    CASE o.op = "upsert_file_state" ->
           [t EXCEPT !.file_state["a.py"] = sha256(o.arg)]
      [] o.op = "remove_file_state" ->
           [t EXCEPT !.file_state["a.py"] = NoHash]
      [] o.op = "set_last_clipboard_hash" ->
           [t EXCEPT !.clipboard_state = sha256(o.arg)]
      [] o.op = "set_last_history_line" ->
           [t EXCEPT !.history_state = o.arg]
      [] o.op = "set_daemon_pid" ->
           [t EXCEPT !.rec = set_daemon_pid(t.rec, o.arg)]
      [] o.op = "clear_daemon_pid" ->
           [t EXCEPT !.rec = clear_daemon_pid(t.rec)]
      [] o.op = "add_directory" ->
           [t EXCEPT !.dirs = add_directory(t.dirs, WatchedPaths[o.arg], o.now)]
      [] o.op = "remove_directory" ->
           [t EXCEPT !.dirs = remove_directory(t.dirs, WatchedPaths[o.arg])]

\* the mutating calls but add_directory, with their arguments
Mutations ==
    [op : {"upsert_file_state", "set_last_clipboard_hash", "set_last_history_line",
           "set_daemon_pid"}, arg : {1}, now : {0}]
        \cup [op : {"remove_file_state", "clear_daemon_pid"}, arg : {0}, now : {0}]
        \cup [op : {"remove_directory"}, arg : 1..Len(WatchedPaths), now : {0}]

\* what a read returns from the tables t
read(t, op) ==
    CASE op = "get_file_state" -> <<t.file_state["a.py"]>>
      [] op = "get_last_clipboard_hash" -> <<t.clipboard_state>>
      [] op = "get_last_history_line" -> <<t.history_state>>
      [] op = "get_daemon_pid" -> <<get_daemon_pid(t.rec)>>
      [] op = "list_directories" -> paths_of(list_directories(t.dirs))
Reads == {"get_file_state", "get_last_clipboard_hash", "get_last_history_line",
          "get_daemon_pid", "list_directories"}

\* the calls of the log, one after the other, on the tables t
RECURSIVE replay(_, _)
replay(t, log) == IF log = <<>> THEN t ELSE replay(statement(t, Head(log)), Tail(log))

\* a lock that holds nobody back
lock_ignored(l) == TRUE

\* with self._lock: the lock is taken when no thread holds it
lock_free(l) == l = NoThread

NoCall == [pc |-> "idle", op |-> "none", arg |-> 0, now |-> 0]
NoRead == [op |-> "none", value |-> <<>>, committed |-> <<>>, inserted |-> <<>>,
           between |-> {}]

\* the store after construction (21-27), with no call made yet
InitStore ==
    /\ NoDaemon
    /\ CollectorsStart("store", [x \in Files |-> 0], <<>>, <<>>,
                       [kind |-> "store", lock |-> NoThread, wall |-> 1, n |-> 0,
                        th |-> [t \in Threads |-> NoCall],
                        committed |-> EmptyTables, log |-> <<>>, last_read |-> NoRead])

StoreFrame ==
    /\ UNCHANGED <<mode, clock, fs, debounce, clipboard, history, vault, done>>
    /\ UNCHANGED <<nextPid, proc, last>>

\* the wall clock (datetime.now) moves on, or is set back
WallClock ==
    /\ mode = "store"
    /\ \E w \in WallTimes : w # unit.wall /\ unit' = [unit EXCEPT !.wall = w]
    /\ SetTables(Tables)
    /\ StoreFrame

\* add_directory, line 69: the time is read, before the lock is asked for
StoreStamp(t) ==
    /\ mode = "store"
    /\ unit.th[t].pc = "idle" /\ unit.n < MaxOps
    /\ \E i \in 1..Len(WatchedPaths) :
         unit' = [unit EXCEPT !.n = @ + 1,
                              !.th[t] = [pc |-> "stamped", op |-> "add_directory",
                                         arg |-> i, now |-> unit.wall]]
    /\ SetTables(Tables)
    /\ StoreFrame

\* with self._lock: self._conn.execute(...) of a mutating call: the lock is
\* taken and the statement runs; the INSERT of a path that has a row raises
\* IntegrityError, which leaves the with block and gives the lock back
StoreExecute(t) ==
    /\ mode = "store"
    /\ lock_free(unit.lock)
    /\ \E o \in IF unit.th[t].pc = "stamped" THEN {unit.th[t]}
                ELSE IF unit.th[t].pc = "idle" /\ unit.n < MaxOps
                THEN {[pc |-> "idle"] @@ m : m \in Mutations}
                ELSE {} :
         IF o.op = "add_directory" /\ has_directory(dirs, WatchedPaths[o.arg])
         THEN /\ unit' = [unit EXCEPT !.th[t] = NoCall]
              /\ SetTables(Tables)
         ELSE /\ unit' = [unit EXCEPT !.lock = t,
                                      !.n = IF o.pc = "idle" THEN @ + 1 ELSE @,
                                      !.th[t] = [o EXCEPT !.pc = "executed"]]
              /\ SetTables(statement(Tables, o))
    /\ StoreFrame

\* self._conn.commit() and the end of the with block: whatever the connection
\* holds uncommitted is committed, and the lock is given back
StoreCommit(t) ==
    /\ mode = "store"
    /\ unit.th[t].pc = "executed"
    /\ unit' = [unit EXCEPT !.lock = NoThread, !.th[t] = NoCall,
                            !.committed = Tables,
                            !.log = Append(@, unit.th[t])]
    /\ SetTables(Tables)
    /\ StoreFrame

\* a read (92-102, 106-110, 133-135, 152-154, 185-189): one SELECT on the
\* connection, without the lock.  Kept with what the read returned: what
\* the committed tables held, the watched paths in the order of their
\* insertion, and the threads that were between statement and commit
StoreRead(t) ==
    /\ mode = "store"
    /\ unit.th[t].pc = "idle"
    /\ \E op \in Reads :
         unit' = [unit EXCEPT !.last_read = [op |-> op, value |-> read(Tables, op),
                                             committed |-> read(unit.committed, op),
                                             inserted |-> paths_of(dirs),
                                             between |->
                                                 {x \in Threads :
                                                     unit.th[x].pc = "executed"}]]
    /\ SetTables(Tables)
    /\ StoreFrame

NextStore ==
    \/ WallClock
    \/ \E t \in Threads : StoreStamp(t)
    \/ \E t \in Threads : StoreExecute(t)
    \/ \E t \in Threads : StoreCommit(t)
    \/ \E t \in Threads : StoreRead(t)

SpecStore == InitStore /\ [][NextStore]_vars

\* ---- the file collector of a running daemon: scan, subscription, events -------
\* daemon.py 72-75: the initial scan has begun with the files empty; the
\* observer is not started yet
InitWatch ==
    /\ NoDaemon
    /\ CollectorsStart("watch", [x \in Files |-> 0], <<>>, <<>>,
                       [kind |-> "watch", phase |-> "scan", todo |-> ScanOrder,
                        pending |-> {}, writes |-> 0])

WatchFrame ==
    /\ UNCHANGED <<mode, clipboard, history, done>>
    /\ UNCHANGED <<nextPid, proc, last>>

\* handle_file(x), lines 45-74, with an add that returns
WatchHandle(x) ==
    LET p == File(x, fs[x])
        step == before_add(p, get_file_state(x), clock, debounce[x])
    IN /\ debounce' = IF step = "debounced" THEN debounce
                      ELSE [debounce EXCEPT ![x] = clock]
       /\ IF step = "add"
          THEN /\ vault' = Added(vault, "file", <<read_file(p).content>>, TRUE)
               /\ SetTables(collector_write(Tables, "file", x,
                                            sha256(read_file(p).content)))
          ELSE /\ vault' = vault
               /\ SetTables(Tables)

\* initial_scan, lines 109-121: the next entry is handled
WatchVisit ==
    /\ mode = "watch"
    /\ unit.phase = "scan" /\ unit.todo # <<>>
    /\ WatchHandle(Head(unit.todo))
    /\ unit' = [unit EXCEPT !.todo = Tail(@)]
    /\ UNCHANGED <<clock, fs>>
    /\ WatchFrame

\* daemon.py 73-75, file_watcher.py 87-97: the scan has returned, the
\* directories are scheduled and the observer starts
WatchSubscribe ==
    /\ mode = "watch"
    /\ unit.phase = "scan" /\ unit.todo = <<>>
    /\ unit' = [unit EXCEPT !.phase = "live"]
    /\ SetTables(Tables)
    /\ UNCHANGED <<clock, fs, debounce, vault>>
    /\ WatchFrame

\* a file that is not hidden is written; the observer, once started, queues
\* an event for it
WatchWrite ==
    /\ mode = "watch"
    /\ unit.writes < MaxUnits
    /\ \E x \in Files, c \in Contents :
         /\ ~hidden(x)
         /\ c # fs[x]
         /\ fs' = [fs EXCEPT ![x] = c]
         /\ unit' = [unit EXCEPT !.writes = @ + 1,
                                 !.pending = IF unit.phase = "live" THEN @ \cup {x} ELSE @]
    /\ SetTables(Tables)
    /\ UNCHANGED <<clock, debounce, vault>>
    /\ WatchFrame

\* on_modified / on_created, lines 25-33: the observer thread hands the event
\* of file x to handle_file
WatchEvent(x) ==
    /\ mode = "watch"
    /\ x \in unit.pending
    /\ WatchHandle(x)
    /\ unit' = [unit EXCEPT !.pending = @ \ {x}]
    /\ UNCHANGED <<clock, fs>>
    /\ WatchFrame

\* time passes
WatchTick ==
    /\ mode = "watch"
    /\ \E d \in {debounce_seconds - 1, debounce_seconds} :
         /\ clock + d <= MaxClock
         /\ clock' = clock + d
    /\ SetTables(Tables)
    /\ UNCHANGED <<fs, debounce, vault, unit>>
    /\ WatchFrame

NextWatch ==
    \/ WatchVisit
    \/ WatchSubscribe
    \/ WatchWrite
    \/ \E x \in Files : WatchEvent(x)
    \/ WatchTick

\* the daemon keeps running: the scan goes on to its end, the observer is
\* started, and its thread delivers every queued event
SpecWatch ==
    /\ InitWatch /\ [][NextWatch]_vars
    /\ WF_vars(WatchVisit \/ WatchSubscribe)
    /\ WF_vars(\E x \in Files : WatchEvent(x))

\* ---- properties ------------------------------------------------------------
\* the events of a log from position n on
From(log, n) == IF n > Len(log) THEN <<>> ELSE SubSeq(log, n, Len(log))

Has(log, e) == \E i \in 1..Len(log) : log[i] = e
Count(log, e) == Cardinality({i \in 1..Len(log) : log[i] = e})

\* a call of one of the commands cmds has ended, and is the last that ended
EndedCall(cmds) == last.pc = "done" /\ last.cmd \in cmds

\* the ended call found a recorded pid and its first probe answered e
FirstProbe(e) == last.lpid # NULL /\ Len(last.log) >= 1 /\ last.log[1] = e

\* C1: every exit of WatcherDaemon.run, by return or by exception, has stopped
\* every collector that was created and has cleared the daemon record (pid
\* NULL, status stopped) by the time run is left.
C1_RunExitStopsAndClears ==
    last.runExit # "none" =>
        /\ \A c \in Collectors : last.coll[c] \in {"none", "stopped"}
        /\ Has(last.log, "clear")
        /\ get_daemon_status(last.recAfter).status = "stopped"
        /\ get_daemon_status(last.recAfter).pid = NULL

\* C2: a start_daemon call, foreground or background, that reads a recorded
\* pid whose probe answers alive returns that pid and has done nothing else:
\* no child spawned, no collector created and run never entered in the calling
\* process, no write of the daemon record (the log of a call holds each of
\* its writes of the record, "set" or "clear").
C2_IdempotentStart ==
    (EndedCall(StartCommands) /\ FirstProbe("alive")) =>
        /\ last.res = Returns(last.lpid, TRUE)
        /\ last.log = <<"alive">>
        /\ last.child = NULL
        /\ last.runExit = "none"
        /\ \A c \in Collectors : last.coll[c] = "none"

C2_Witness ==
    /\ EndedCall({"start_bg"})
    /\ FirstProbe("alive")
    /\ last.res = Returns(last.lpid, TRUE)

\* C3: a background start_daemon that finds no live daemon recorded ends in one
\* of two ways: it returns the pid of a child it spawned, the daemon record
\* holding that pid with status running as it returns, or it fails because the
\* child did not stay alive (RuntimeError).
C3_BackgroundStartRecordsChild ==
    (EndedCall({"start_bg"}) /\ (last.lpid = NULL \/ FirstProbe("dead"))) =>
        \/ /\ last.child # NULL
           /\ last.res = Returns(last.child, TRUE)
           /\ last.recAfter.status = "running"
           /\ get_daemon_pid(last.recAfter) = last.child
        \/ last.res = Raises("RuntimeError")

C6_StopWhenNotRunning ==
    (EndedCall({"stop"}) /\ (last.lpid = NULL \/ FirstProbe("dead"))) =>
        /\ last.res = Returns(NULL, FALSE)
        /\ ~Has(last.log, "TERM") /\ ~Has(last.log, "KILL")
        /\ FirstProbe("dead") =>
              /\ last.log = <<"dead", "clear">>
              /\ get_daemon_status(last.recAfter).status = "stopped"
              /\ get_daemon_status(last.recAfter).pid = NULL

C6_Witness ==
    /\ EndedCall({"stop"})
    /\ FirstProbe("dead")
    /\ last.res = Returns(NULL, FALSE)
    /\ last.recAfter.exists

\* what daemon_status returns from the record r when r holds no pid
\* (lines 178-181 and 187-188)
StatusOfCleared(r) == StatusInfo(get_daemon_status(r), FALSE, dirs)

\* C7: a daemon_status call whose probe of the recorded pid answers dead returns
\* status stopped, pid None and the stale-pid note, and leaves the record
\* cleared: a daemon_status that reads the record as this call left it returns
\* stopped, pid None and no note.
C7_StatusClearsStale ==
    (EndedCall({"status"}) /\ FirstProbe("dead")) =>
        /\ last.res.kind = "return"
        /\ last.info.status = "stopped" /\ last.info.pid = NULL /\ last.info.note
        /\ last.log = <<"dead", "clear">>
        /\ get_daemon_pid(last.recAfter) = NULL
        /\ StatusOfCleared(last.recAfter).status = "stopped"
        /\ StatusOfCleared(last.recAfter).pid = NULL
        /\ ~StatusOfCleared(last.recAfter).note

C7_Witness ==
    /\ EndedCall({"status"})
    /\ FirstProbe("dead")
    /\ last.info.note
    /\ last.recAfter.exists

\* the log of a stop_daemon call with the given timeout, as far as it got, has
\* the order lines 162-172 prescribe: after the first probe, SIGTERM; then at
\* most 2*timeout probes; SIGKILL only as the event after exactly 2*timeout
\* probes that all answered alive; no signal after a probe that answered dead
StopLogInOrder(log, timeout) ==
    Has(From(log, 2), "TERM") \/ Has(log, "KILL") =>
        LET after == From(log, 3)
            polls == Count(after, "alive") + Count(after, "dead")
                       + Count(after, "probe_raised")
        IN /\ log[1] = "alive" /\ log[2] = "TERM"
           /\ ~Has(after, "TERM")
           /\ polls <= 2 * timeout
           /\ \A i \in 1..Len(after) :
                /\ after[i] = "KILL" =>
                     /\ i = 2 * timeout + 1
                     /\ \A j \in 1..(i - 1) : after[j] = "alive"
                /\ after[i] \in {"dead", "probe_raised"} => ~Has(From(after, i + 1), "KILL")

\* the stop_daemon call of process p, past SIGTERM, can take its next step
StopNotBlocked(p) ==
    ENABLED (StopPoll(p) \/ StopExited(p) \/ StopKill(p) \/ StopKilled(p))

\* C8: a stop_daemon call that found its daemon alive sends SIGTERM first, then
\* probes at most 2*timeout times, and sends SIGKILL only after 2*timeout
\* probes that all found the process alive; it is never blocked, it ends after
\* at most 2*timeout + 4 events, and it ends with a definitive result: it
\* returns True with the record cleared, or the error of a signal call that
\* failed leaves it.
C8_StopEscalation ==
    /\ \A p \in PIDs :
         Live(p) /\ proc[p].cmd = "stop" =>
            /\ StopLogInOrder(proc[p].log, proc[p].arg)
            /\ proc[p].probes <= 2 * proc[p].arg
            /\ proc[p].pc \in {"sp_loop", "sp_exited", "sp_killed"} => StopNotBlocked(p)
    /\ (EndedCall({"stop"}) /\ FirstProbe("alive")) =>
            /\ StopLogInOrder(last.log, last.arg)
            /\ Len(last.log) <= 2 * last.arg + 4
            /\ \/ /\ last.res = Returns(NULL, TRUE)
                  /\ last.log[Len(last.log)] = "clear"
               \/ /\ last.res.kind = "raise"
                  /\ last.res.exc \in {"ProcessLookupError", "PermissionError"}

C8_Witness ==
    /\ EndedCall({"stop"})
    /\ last.arg = MaxTimeout
    /\ Has(last.log, "KILL")
    /\ Count(last.log, "alive") = 2 * MaxTimeout + 1
    /\ last.res = Returns(NULL, TRUE)

\* C9: in a stop_daemon call every clear of the daemon record comes directly
\* after a probe that answered dead, on the graceful path and after SIGKILL
\* alike.
C9_ClearOnlyAfterConfirmedExit ==
    EndedCall({"stop"}) =>
        \A i \in 1..Len(last.log) :
            last.log[i] = "clear" => (i > 1 /\ last.log[i - 1] = "dead")

Digits == {"0", "1", "2", "3", "4", "5", "6", "7", "8", "9"}
TimestampPrefix(line) ==
    IF startswith(line, <<":", " ">>) /\ contains(line, ";")
    THEN LET semi == find(line, ";")
             body == SubSeq(line, 3, semi - 1)
         IN IF /\ contains(body, ":")
               /\ LET colon == find(body, ":") IN
                  /\ colon > 1 /\ colon < Len(body)
                  /\ \A i \in 1..Len(body) : i # colon => body[i] \in Digits
            THEN semi ELSE 0
    ELSE 0

\* the command of a history line: the line trimmed, without its timestamp
\* prefix, trimmed again
CommandOf(raw) ==
    LET line == strip(raw) IN strip(SubSeq(line, TimestampPrefix(line) + 1, Len(line)))

\* C16: for every history line, parse_history_line gives no command when the
\* command of the line (timestamp prefix stripped, trimmed) is shorter than
\* the minimum length or has its base name (first whitespace-delimited token,
\* last path segment) in the skip-list, and gives exactly that command
\* otherwise.
C16_ParseHistoryLine ==
    (unit.kind = "parse" /\ unit.pc = "returned") =>
        LET cmd == CommandOf(unit.line) IN
        IF \/ Len(cmd) < history_min_command_length
           \/ last_segment(first_token(cmd)) \in history_skip_commands
        THEN unit.result = NoCommand
        ELSE unit.result = Command(cmd)

\* C14: the history collector never submits a command that the secret filter
\* classifies as sensitive
C14_NoSensitiveCommandSubmitted ==
    \A d \in vault : d.source_type = "terminal" => ~contains_secret(d.content)

\* C15: a poll that finds the history file at least as long as the persisted
\* cursor parses and submits no line below the cursor: the lines it works on
\* start at the cursor, also when the poll is the first one of a collector
\* started after a crash
C15_NoLineBelowCursorAgain ==
    (unit.kind = "hist" /\ unit.cursor <= unit.len) =>
        /\ unit.last_line = unit.cursor
        /\ unit.i >= unit.cursor

\* a restarted collector found new lines behind a cursor a former instance
\* wrote, and worked through them
C15_Witness ==
    /\ unit.kind = "hist" /\ unit.pc = "returned"
    /\ unit.restarted
    /\ unit.cursor > 0 /\ unit.len > unit.cursor
    /\ unit.last_line = unit.cursor /\ unit.i = unit.len
    /\ \E d \in vault : d.source_type = "terminal"

\* C17: a poll that finds fewer lines than the persisted cursor parses all
\* lines of the file from index 0 and persists the file's line count
C17_TruncationResets ==
    (unit.kind = "hist" /\ unit.pc = "returned" /\ unit.cursor > unit.len) =>
        /\ unit.last_line = 0
        /\ unit.i = unit.len
        /\ unit.marker = unit.len

\* C18: after a poll that read the history file and met no store error the
\* persisted cursor is the line count of the file
C18_CursorIsLineCount ==
    (unit.kind = "hist" /\ unit.pc = "returned") => history_state = unit.len

C13_SensitiveClipboardRejected ==
    (unit.kind = "clip" /\ contains_secret(unit.text)) =>
        /\ unit.why # "new"
        /\ ~unit.result
        /\ unit.marker = unit.last_hash

C19_AddErrorRetried ==
    /\ (unit.kind \in {"scan", "event"} /\ unit.pc \in {"returned", "raised"}) =>
            /\ unit.raised \subseteq unit.marker
            /\ unit.owed \subseteq unit.submitted
    /\ (unit.kind = "clip" /\ unit.pc = "raised") => unit.marker = unit.last_hash
    /\ (unit.kind = "clip" /\ unit.retry) => unit.why = "new"
    /\ (unit.kind = "hist" /\ unit.pc = "raised") => unit.marker = unit.cursor
    /\ (unit.kind = "hist" /\ unit.retry /\ unit.cursor <= unit.len) =>
            unit.last_line = unit.cursor

\* C20: a step that changes a collector's marker finds the content the marker
\* stands for in the store, added by a call that returned; a crash changes no
\* marker; so the collector started after a crash has the content not yet
\* marked before it again: its first scan debounces nothing and submits every
\* file whose content is not the content last ingested
C20_MarkerOnlyAfterAdd ==
    /\ [][/\ \A x \in Files :
               file_state'[x] # file_state[x] =>
                   \E d \in vault : /\ d.source_type = "file"
                                    /\ file_state'[x] = sha256(d.content)
          /\ clipboard_state' # clipboard_state =>
                   \E d \in vault : /\ d.source_type = "clipboard"
                                    /\ clipboard_state' = sha256(d.content)
          /\ history_state' # history_state =>
                   \A k \in (unit.last_line + 1)..Len(history) :
                       LET command == parse_history_line(shell_name, history[k]) IN
                       command.some =>
                           [source_type |-> "terminal", content |-> command.text] \in vault
          /\ (done'.n # done.n /\ done'.pc = "crashed") =>
                   UNCHANGED <<file_state, clipboard_state, history_state>>]_vars
    /\ [](unit.kind = "scan" /\ unit.restarted =>
            /\ unit.window0 = {}
            /\ unit.pc = "returned" => unit.changed0 \subseteq unit.submitted)

\* the collector crashed between the add and the write of the clipboard hash,
\* and the collector started next submitted the value again
C20_Witness ==
    /\ unit.kind = "clip" /\ unit.pc = "returned" /\ unit.result
    /\ unit.restarted /\ unit.again
    /\ unit.last_hash = NoHash

\* C30: any two documents with the same content get the same id, whatever
\* their source type, timestamp, file path and tags
C30_IdFromContentAlone ==
    (unit.kind = "doc" /\ unit.pc = "returned"
     /\ unit.docs[1].content = unit.docs[2].content)
        => unit.ids[1] = unit.ids[2]

\* two documents of the same content from different sources have their ids
C30_Witness ==
    /\ unit.kind = "doc" /\ unit.pc = "returned"
    /\ unit.docs[1].content = unit.docs[2].content
    /\ unit.docs[1].source_type # unit.docs[2].source_type
    /\ unit.docs[1].timestamp # unit.docs[2].timestamp
    /\ unit.docs[1].file_path # unit.docs[2].file_path
    /\ unit.docs[1].tags # unit.docs[2].tags
    /\ unit.ids[1] = generate_id(unit.docs[1])

\* C24: check_and_ingest rejects a text by its length exactly when the text
\* after trimming is shorter than the minimum or longer than the maximum
C24_LengthFilterOnTrimmedText ==
    (unit.kind = "length" /\ unit.pc = "returned")
        => ((unit.why = "filtered" /\ ~unit.result /\ ~unit.added)
            <=> \/ unit.text.body < clipboard_min_length
                \/ unit.text.body > clipboard_max_length)

\* C21: a handle_file call for a path less than the debounce window after the
\* last call for that path that was not debounced leaves the stored hashes,
\* the debounce times and the store as they are and submits nothing; a call
\* for another path, outside its own window, is handled as if no path were
\* in the window
C21_DebouncedCallDoesNothing ==
    [][(/\ unit.kind \in {"scan", "event"} /\ unit.pc = "next"
        /\ unit'.kind = unit.kind /\ unit'.todo = Tail(unit.todo))
       => LET x == Head(unit.todo)
          IN /\ (debounce[x] > 0 /\ clock - debounce[x] < debounce_seconds)
                  => /\ UNCHANGED <<file_state, debounce, vault>>
                     /\ unit'.pc \in {"next", "returned"}
                     /\ unit'.submitted = unit.submitted
                     /\ unit'.ingested = unit.ingested
             /\ (/\ clock - debounce[x] >= debounce_seconds
                 /\ \E y \in Files \ {x} :
                      debounce[y] > 0 /\ clock - debounce[y] < debounce_seconds)
                  => /\ debounce' = [debounce EXCEPT ![x] = clock]
                     /\ x \in Changed(fs, file_state)
                          => unit'.pc = "add" /\ unit'.file = x]_vars

\* a scan that found a.py and b.py changed, a.py inside the window of its
\* last handling and b.py outside its own: a.py was not submitted, b.py was
\* ingested
C21_Witness ==
    /\ unit.kind = "scan" /\ unit.pc = "returned"
    /\ unit.window0 = {"a.py"}
    /\ {"a.py", "b.py"} \subseteq unit.changed0
    /\ "a.py" \notin unit.submitted
    /\ "b.py" \in unit.ingested
    /\ file_state["a.py"] # sha256(fs["a.py"])

\* a path with a part that begins with a dot, with an extension that is not
\* supported, that is not a regular file, or whose file is empty or over the
\* size limit
Rejected(p) ==
    \/ \E k \in 1..Len(p.parts) : p.parts[k][1] = "."
    \/ lower_text(suffix(p.parts[Len(p.parts)])) \notin supported_extensions
    \/ p.kind # "file"
    \/ p.size = 0
    \/ p.size > max_file_size_bytes

C23_ScanRunsToCompletion ==
    (unit.kind = "scan" /\ unit.pc \in {"returned", "raised"})
        => /\ unit.pc = "returned"
           /\ unit.todo = <<>> /\ unit.unreached = <<>>

\* C25: once a poll found no pbpaste, the clipboard worker polls no more:
\* its stop event is set, that poll stays its last one and it is not at a
\* poll again, also when pbpaste appears later; and until the daemon is told
\* to stop, run() stays in its loop, the observer runs and the history worker
\* keeps its stop event cleared and its loop alive
C25_MissingPbpasteStopsClipboardOnly ==
    (unit.kind = "loop" /\ unit.cb_missing_at # 0)
        => /\ unit.cb_stop
           /\ unit.cb_polls = unit.cb_missing_at
           /\ unit.cb_pc \in {"wait", "test", "exited"}
           /\ unit.running
                => /\ unit.main = "loop" /\ unit.fw = "running"
                   /\ ~unit.hi_stop /\ unit.hi_pc # "exited"

\* the first poll found no pbpaste and the clipboard worker has left its
\* loop; pbpaste is there by now, the history worker has polled twice since
\* and the daemon runs
C25_Witness ==
    /\ unit.kind = "loop"
    /\ unit.cb_missing_at = 1 /\ unit.cb_pc = "exited" /\ unit.cb_polls = 1
    /\ clipboard \in ClipTexts /\ Len(clipboard) >= clipboard_min_length
    /\ unit.hi_polls >= 2 /\ unit.hi_pc = "poll"
    /\ unit.running /\ unit.main = "loop"

\* the threads between the statement and the commit of a mutating call
InCall == {t \in Threads : unit.th[t].pc = "executed"}

\* C26: mutating calls of different threads never overlap: at most one
\* thread is between its statement and its commit, it holds the lock, the
\* connection holds no uncommitted statement but its own, and the committed
\* tables are those of the committed calls made one after the other
C26_MutationsAreSerialized ==
    unit.kind = "store"
        => /\ Cardinality(InCall) <= 1
           /\ InCall = {} => unit.lock = NoThread /\ Tables = unit.committed
           /\ \A t \in InCall :
                /\ unit.lock = t
                /\ Tables = statement(unit.committed, unit.th[t])
           /\ unit.committed = replay(EmptyTables, unit.log)

\* one thread is between its statement and its commit while the other has
\* read the time for its add_directory and waits for the lock
C26_Witness ==
    /\ unit.kind = "store"
    /\ unit.th[1].pc = "executed" /\ unit.th[1].op = "upsert_file_state"
    /\ unit.th[2].pc = "stamped"
    /\ ~ENABLED StoreExecute(2)

\* C27: a read never runs between the statement and the commit of a mutating
\* call of another thread: what it returns is what the committed tables hold
C27_ReadsSeeCommittedState ==
    unit.kind = "store"
        => /\ unit.last_read.between = {}
           /\ unit.last_read.value = unit.last_read.committed

\* the rows of the three single-row tables (id = 1): a daemon record, a
\* clipboard hash, a history cursor.  The calls of the model write no empty
\* hash and no cursor 0, so that these values tell that no row is there
\* (state.py 133-135, 152-154)
daemon_rows == IF rec.exists THEN 1 ELSE 0
clipboard_rows == IF clipboard_state = NoHash THEN 0 ELSE 1
history_rows == IF history_state = 0 THEN 0 ELSE 1

\* C28: from its creation on, the store holds exactly one daemon record row,
\* one clipboard hash row and one history cursor row
C28_ExactlyOneRowEach ==
    unit.kind = "store"
        => daemon_rows = 1 /\ clipboard_rows = 1 /\ history_rows = 1

\* C29: list_directories returns the watched directories in the order in
\* which they were added
C29_ListInInsertionOrder ==
    (unit.kind = "store" /\ unit.last_read.op = "list_directories")
        => unit.last_read.value = unit.last_read.inserted

\* the path handled holds a document whose hash is the hash stored for it
StoredHashIsCurrent(p, existing) ==
    /\ read_file(p).some
    /\ existing = sha256(read_file(p).content)

\* C38: handle_file of a file whose content hash is the stored one returns
\* False, makes no add call and leaves the stored row as it was
C38_UnchangedFileIsSkipped ==
    (unit.kind = "handle" /\ unit.pc # "call"
     /\ StoredHashIsCurrent(unit.path, unit.existing))
        => /\ unit.pc = "returned"
           /\ ~unit.result /\ ~unit.submitted
           /\ unit.hash = unit.existing
           /\ vault = {}

\* a supported, visible file with the stored hash, handled outside the
\* debounce window, got as far as the comparison of line 64
C38_Witness ==
    /\ unit.kind = "handle" /\ unit.pc = "returned"
    /\ StoredHashIsCurrent(unit.path, unit.existing)
    /\ unit.step = "unchanged" /\ unit.stamp = clock /\ unit.lst = 0
    /\ ~unit.result

\* the commands that parse_history_line keeps, of the lines after the first
\* `from` ones, in file order
RECURSIVE surviving(_, _)
surviving(lines, from) ==
    IF from >= Len(lines) THEN <<>>
    ELSE LET command == parse_history_line(shell_name, lines[from + 1]) IN
         (IF command.some THEN <<command.text>> ELSE <<>>) \o surviving(lines, from + 1)

\* the sequence s cut into pieces of n elements, the last one shorter when n
\* does not divide the length
RECURSIVE cut(_, _)
cut(s, n) ==
    IF s = <<>> THEN <<>>
    ELSE IF Len(s) <= n THEN <<s>>
    ELSE <<SubSeq(s, 1, n)>> \o cut(SubSeq(s, n + 1, Len(s)), n)

\* C36: the add calls of one history poll are the surviving commands in file
\* order, cut into batches of the batch size with the remainder last: no call
\* is empty or over the batch size, and a poll that returns has submitted each
\* surviving command in exactly one call (a poll that an add raised out of has
\* made the first of these calls)
C36_BatchesPartitionSurvivors ==
    unit.kind = "hist" =>
        LET all == cut(surviving(history, unit.last_line), history_batch_size) IN
        /\ \A k \in 1..Len(unit.calls) :
             /\ unit.calls[k] # <<>>
             /\ Len(unit.calls[k]) <= history_batch_size
        /\ Len(unit.calls) <= Len(all)
        /\ unit.calls = SubSeq(all, 1, Len(unit.calls))
        /\ unit.pc \in {"set", "returned"} => unit.calls = all

\* a poll returned after one full batch and one add with the remainder
C36_Witness ==
    /\ unit.kind = "hist" /\ unit.pc = "returned"
    /\ Len(unit.calls) = 2
    /\ Len(unit.calls[1]) = history_batch_size
    /\ Len(unit.calls[2]) < history_batch_size
    /\ unit.calls[1] \o unit.calls[2] = surviving(history, unit.last_line)

\* once the stop event of a worker is set, the loop begins no further poll:
\* the polls begun stay those begun when the event was set
NoNewPollAfterStop ==
    unit.kind = "loop" =>
        /\ unit.cb_stop => begun(unit.cb_pc, unit.cb_polls) <= unit.cb_limit
        /\ unit.hi_stop => begun(unit.hi_pc, unit.hi_polls) <= unit.hi_limit

\* C34: after the stop of a clipboard or history worker is requested its loop
\* starts no new poll, at most the poll in flight completes, and the worker
\* thread ends
C34_StoppedLoopPollsNoMore ==
    /\ []NoNewPollAfterStop
    /\ (unit.kind = "loop" /\ unit.cb_stop) ~> (unit.cb_pc = "exited")
    /\ (unit.kind = "loop" /\ unit.hi_stop) ~> (unit.hi_pc = "exited")

\* the history worker was inside its second poll when stop() set its event;
\* that poll completed and the worker left its loop without a third
C34_Witness ==
    /\ unit.kind = "loop"
    /\ unit.hi_stop /\ unit.hi_limit = 2 /\ unit.hi_polls = 2
    /\ unit.hi_pc = "exited"
    /\ unit.cb_pc = "exited" /\ unit.cb_missing_at = 0
    /\ unit.main = "stopped"

InRun(p) ==
    /\ Live(p)
    /\ proc[p].cmd \in RunCommands
    /\ proc[p].pc \in {"run_sig", "run_start", "run_ready", "run_idle", "fin_stop", "fin_clear"}

\* C33: start_daemon does not look at the record again after its liveness
\* check: a start that passed the check enters run() and writes its own pid
\* over whatever the record names by then.  So two starts that both found no
\* live daemon each start a daemon, and the record names the later writer only
C33_StartsRaceToTheRecord ==
    [][\A p \in PIDs :
         (~proc[p].running /\ proc'[p].running) =>
             /\ proc[p].pc \in {"sd_launch", "main_entry"}
             /\ get_daemon_pid(rec') = p
             /\ InRun(p)']_vars

\* two start_daemon calls both read an empty record; both daemons are in
\* their idle loops and the record names the second one
C33_Witness ==
    /\ proc[1].cmd = "start_fg" /\ proc[2].cmd = "start_fg"
    /\ proc[1].lpid = NULL /\ proc[2].lpid = NULL
    /\ InRun(1) /\ proc[1].pc = "run_idle" /\ proc[1].running
    /\ InRun(2) /\ proc[2].pc = "run_idle" /\ proc[2].running
    /\ get_daemon_pid(rec) = 2

\* the process whose record the call of process p is about: the recorded pid
\* that stop_daemon and daemon_status read and probed, the daemon itself in
\* the cleanup of run()
Examined(p) == IF proc[p].cmd \in RunCommands THEN p ELSE proc[p].lpid

\* C39: a step that sets the daemon record to stopped is taken only when the
\* record still names the process that the clearing call examined, so the
\* record of a live daemon is never cleared by another process's stop_daemon,
\* daemon_status or exit cleanup
C39_ClearOnlyTheExaminedRecord ==
    [][\A p \in PIDs :
         (/\ Live(p) /\ proc'[p] # proc[p]
          /\ get_daemon_pid(rec) # NULL /\ get_daemon_pid(rec') = NULL)
             => get_daemon_pid(rec) = Examined(p)]_vars

\* the steps of startup that the claim orders, and the readiness byte
StartupOrder == <<"scan", "fw_start", "cb_start", "hi_start", "ready">>

\* what process record q logged of them, in the order it did them
StartupSteps(q) ==
    SelectSeq(q.log, LAMBDA e : e \in {"scan", "fw_start", "cb_start", "hi_start", "ready"})

\* C32: inside run() the initial scan, the start of the file subscription, of
\* the clipboard and of the history collector happen in this order, each at
\* most once, and the readiness byte is written only after all four; it is
\* never written by a run whose startup raised
C32_ReadyAfterOrderedStartup ==
    \A p \in PIDs :
        (Live(p) /\ proc[p].cmd \in RunCommands) =>
            LET steps == StartupSteps(proc[p]) IN
            /\ Len(steps) <= Len(StartupOrder)
            /\ steps = SubSeq(StartupOrder, 1, Len(steps))
            /\ proc[p].ready <=> Has(proc[p].log, "ready")
            /\ Has(proc[p].log, "start_raised") => ~Has(proc[p].log, "ready")

\* a daemon child has written the readiness byte and is in its idle loop with
\* its three collectors started
C32_Witness ==
    \E p \in PIDs :
        /\ InRun(p) /\ proc[p].cmd = "main" /\ proc[p].pc = "run_idle"
        /\ proc[p].ready /\ proc[p].wpipe = "closed"
        /\ StartupSteps(proc[p]) = StartupOrder
        /\ \A c \in Collectors : proc[p].coll[c] = "started"

\* the phase of the daemon that process record q is in: starting from the
\* write of its pid (daemon.py 40-41) to the end of _start_monitors and of the
\* readiness write, running in the idle loop (59-60), stopping in the finally
\* block (65-68), stopped before and after
phase(q) ==
    CASE q.st # "live" -> "stopped"
      [] q.pc \in {"run_sig", "run_start", "run_ready"} -> "starting"
      [] q.pc = "run_idle" -> "running"
      [] q.pc \in {"fin_stop", "fin_clear"} -> "stopping"
      [] OTHER -> "stopped"

PhaseOrder ==
    {<<"stopped", "starting">>, <<"starting", "running">>,
     <<"running", "stopping">>, <<"stopping", "stopped">>}

\* the process ends in the middle of run() without a call having ended: it
\* was killed (SIGKILL, a signal before the handlers are installed, a crash)
KilledInRun(a, b) == a \in {"starting", "running"} /\ b = "stopped" /\ last' = last

\* the collectors are started in the starting phase only and stopped in the
\* stopping phase only
CollectorsFollowPhase(p) ==
    \A c \in Collectors :
        /\ (proc'[p].coll[c] = "started" /\ proc[p].coll[c] # "started")
               => phase(proc[p]) = "starting"
        /\ (proc'[p].coll[c] = "stopped" /\ proc[p].coll[c] # "stopped")
               => phase(proc[p]) = "stopping"

====
